---- MODULE Spec2Model ----
(***************************************************************************)
(* Period hierarchy engine of nholding/cso-book: generation of Gregorian   *)
(* periods, fiscal overlays, the in-memory PeriodStore, the hierarchy and  *)
(* fiscal-coverage validators, range decomposition and the PeriodService   *)
(* startup sequence.                                                       *)
(*                                                                         *)
(* The specifications share the variables:                                 *)
(*   Spec        - the PeriodService (InitializePeriods,                   *)
(*                 BreakDownTradeRange)                                    *)
(*   SpecPure    - the generator, the hierarchy validator and the range    *)
(*                 decomposition applied to bounded inputs                 *)
(*   SpecFiscal  - the fiscal overlay, the coverage validator and the      *)
(*                 overlap detector applied to bounded inputs              *)
(*   SpecStartup - two process runs against one repository                 *)
(*   SpecStore   - the repository, the PeriodStore constructor and sort,   *)
(*                 and the decomposition of a single period                *)
(***************************************************************************)
EXTENDS Integers, Sequences, FiniteSets, TLC

VARIABLES
    db,           \* rows of the periods table (RdsPeriodRepository)
    store,        \* PeriodService.store (NilStore until line 139 runs)
    initResult,   \* "none" | "nil" | "error": what InitializePeriods returned
    initArgs,     \* arguments of the InitializePeriods call
    callLog,      \* calls made by InitializePeriods, in order, with outcome
    lastRange,    \* argument of the last BreakDownTradeRange call
    lastBreakdown,\* its result
    fn,           \* SpecPure: the function applied last
    arg,          \* SpecPure: its arguments
    ret           \* SpecPure: its result

vars == <<db, store, initResult, initArgs, callLog, lastRange,
          lastBreakdown, fn, arg, ret>>

svcVars == <<db, store, initResult, initArgs, callLog, lastRange,
             lastBreakdown>>

pureVars == <<fn, arg, ret>>

-----------------------------------------------------------------------------
(* Bounds                                                                  *)

\* last year a caller may pass as startYear / endYear (the first is 2026)
MaxYear == 2027

\* ticks per day; one tick stands for the nanosecond of time.Nanosecond
TicksPerDay == 2

YearRange == 2026 .. MaxYear

-----------------------------------------------------------------------------
(* time.Time restricted to UTC instants, counted in ticks since            *)
(* 2026-01-01T00:00:00Z                                                    *)

IsLeap(y) == (y % 4 = 0 /\ y % 100 # 0) \/ y % 400 = 0

DaysIn(y, m) ==
    IF m = 2 THEN (IF IsLeap(y) THEN 29 ELSE 28)
    ELSE IF m \in {4, 6, 9, 11} THEN 30 ELSE 31

RECURSIVE DaysBeforeMonth(_, _)
DaysBeforeMonth(y, m) ==
    IF m <= 1 THEN 0 ELSE DaysBeforeMonth(y, m - 1) + DaysIn(y, m - 1)

RECURSIVE DaysBeforeYear(_)
DaysBeforeYear(y) ==
    IF y <= 2026 THEN 0
    ELSE DaysBeforeYear(y - 1) + (IF IsLeap(y - 1) THEN 366 ELSE 365)

\* time.Date(y, m, 1, 0, 0, 0, 0, time.UTC); a month outside 1..12 is
\* normalised into the neighbouring years as time.Date does
Date(y, m) ==
    LET ny == y + ((m - 1) \div 12)
        nm == ((m - 1) % 12) + 1
    IN  (DaysBeforeYear(ny) + DaysBeforeMonth(ny, nm)) * TicksPerDay

\* years a modelled instant can fall in
ClockYears == 2026 .. (MaxYear + 2)

YearOf(t) == CHOOSE y \in ClockYears : Date(y, 1) <= t /\ t < Date(y + 1, 1)

MonthOf(t) ==
    CHOOSE m \in 1 .. 12 :
        \E y \in {YearOf(t)} : Date(y, m) <= t /\ t < Date(y, m + 1)

\* t.AddDate(years, months, 0): the date fields are shifted and the result is
\* normalised; the offset within the month is carried over unchanged
AddDate(t, years, months) ==
    CHOOSE shifted \in
      { Date(y + years, m + months) + (t - Date(y, m))
        : y \in {YearOf(t)}, m \in {MonthOf(t)} } : TRUE

Nanosecond == 1

Before(t, u) == t < u

After(t, u) == t > u

-----------------------------------------------------------------------------
(* Period entity                                                           *)

MonthlyPeriod == "MONTHLY"

QuarterlyPeriod == "QUARTERLY"

CalendarYearPeriod == "CALENDAR"

CalendarGregorian == "CAL"

CalendarFiscal == "FY"

\* Go zero value of the string-typed Calendar field
CalendarUnset == ""

\* nil *string of ParentPeriodID
NilParent == "<nil>"

Period(id, name, cal, gran, parent, children, start, end) ==
    [ID |-> id, Name |-> name, Calendar |-> cal, Granularity |-> gran,
     ParentPeriodID |-> parent, ChildPeriodIDs |-> children,
     StartDate |-> start, EndDate |-> end]

\* monthStart.Format("Jan") upper-cased by strings.ToUpper
MonthAbbrevUpper ==
    <<"JAN", "FEB", "MAR", "APR", "MAY", "JUN",
      "JUL", "AUG", "SEP", "OCT", "NOV", "DEC">>

\* monthStart.Format("January")
MonthLongName ==
    <<"January", "February", "March", "April", "May", "June", "July",
      "August", "September", "October", "November", "December">>

\* strings.ToUpper(monthStart.Format("2006-Jan"))
MonthID(t) == ToString(YearOf(t)) \o "-" \o MonthAbbrevUpper[MonthOf(t)]

\* monthStart.Format("January 2006")
MonthName(t) == MonthLongName[MonthOf(t)] \o " " \o ToString(YearOf(t))

-----------------------------------------------------------------------------
(* GeneratePeriods                                                         *)

\* monthEnd := monthStart.AddDate(0, 1, 0).Add(-time.Nanosecond)
MonthEnd_Exclusive(monthStart) == AddDate(monthStart, 0, 1)

MonthEnd(monthStart) == AddDate(monthStart, 0, 1) - Nanosecond

\* the quarter's end without the nanosecond taken off
QuarterEnd_Exclusive(qStart) == AddDate(qStart, 0, 3)

\* qEnd := qStart.AddDate(0, 3, 0).Add(-time.Nanosecond)
QuarterEnd(qStart) == AddDate(qStart, 0, 3) - Nanosecond

\* the three months of one quarter, in the order they are appended
GenMonths(qID, qStart) ==
    [m \in 1 .. 3 |->
        CHOOSE month \in
          { Period(MonthID(monthStart), MonthName(monthStart), CalendarUnset,
                   MonthlyPeriod, qID, <<>>, monthStart,
                   MonthEnd(monthStart))
            : monthStart \in {AddDate(qStart, 0, m - 1)} } : TRUE]

\* one iteration of the quarter loop: the quarter's months, then the quarter
\* carrying the three month IDs it collected
GenQuarter(y, yearID, yearStart, q) ==
    CHOOSE appended \in
      { CHOOSE withQuarter \in
          { months \o
            <<Period(qID, "Q" \o ToString(q) \o " " \o ToString(y),
                     CalendarUnset, QuarterlyPeriod, yearID,
                     [i \in 1 .. 3 |-> months[i].ID], qStart,
                     QuarterEnd(qStart))>>
            : months \in {GenMonths(qID, qStart)} } : TRUE
        : qID \in {ToString(y) \o "-Q" \o ToString(q)},
          qStart \in {AddDate(yearStart, 0, (q - 1) * 3)} } : TRUE

\* one iteration of the year loop.  The year is appended BY VALUE before its
\* quarters exist; the later appends to yearPeriod.ChildPeriodIDs change the
\* local variable only, so the returned year keeps the empty list.
GenYear(y) ==
    CHOOSE appended \in
      { <<Period(yearID, ToString(y), CalendarUnset, CalendarYearPeriod,
                 NilParent, <<>>, yearStart, yearEnd)>>
        \o GenQuarter(y, yearID, yearStart, 1)
        \o GenQuarter(y, yearID, yearStart, 2)
        \o GenQuarter(y, yearID, yearStart, 3)
        \o GenQuarter(y, yearID, yearStart, 4)
        : yearID \in {ToString(y)},
          yearStart \in {Date(y, 1)},
          yearEnd \in {Date(y + 1, 1) - Nanosecond} } : TRUE

RECURSIVE GeneratePeriods(_, _)
GeneratePeriods(startYear, endYear) ==
    IF startYear > endYear THEN <<>>
    ELSE GenYear(startYear) \o GeneratePeriods(startYear + 1, endYear)

-----------------------------------------------------------------------------
(* PeriodStore                                                             *)

NilStore == [nil |-> TRUE]

\* position of the last period carrying id (later map writes win)
RECURSIVE LastIndexOf(_, _, _)
LastIndexOf(periods, id, i) ==
    IF i = 0 THEN 0
    ELSE IF periods[i].ID = id THEN i
    ELSE LastIndexOf(periods, id, i - 1)

IsMonth(p) == p.Granularity = MonthlyPeriod

IsQuarter(p) == p.Granularity = QuarterlyPeriod

IsYear(p) == p.Granularity = CalendarYearPeriod

\* insertion of p behind every element that does not start after it
RECURSIVE InsertByStart(_, _)
InsertByStart(sorted, p) ==
    IF sorted = <<>> THEN <<p>>
    ELSE IF Before(p.StartDate, sorted[Len(sorted)].StartDate)
         THEN InsertByStart(SubSeq(sorted, 1, Len(sorted) - 1), p)
              \o <<sorted[Len(sorted)]>>
         ELSE sorted \o <<p>>

\* sort.Slice(s, func(i, j) { return s[i].StartDate.Before(s[j].StartDate) }).
\* Periods with equal StartDate keep the order they were given in, as the
\* insertion sort sort.Slice applies to short slices does.
RECURSIVE SortByStart(_)
SortByStart(s) ==
    IF s = <<>> THEN <<>>
    ELSE InsertByStart(SortByStart(SubSeq(s, 1, Len(s) - 1)), s[Len(s)])

NewPeriodStore(periods) ==
    [nil |-> FALSE,
     Periods |-> [id \in {periods[i].ID : i \in 1 .. Len(periods)} |->
                     periods[LastIndexOf(periods, id, Len(periods))]],
     Months |-> SortByStart(SelectSeq(periods, IsMonth)),
     Quarters |-> SortByStart(SelectSeq(periods, IsQuarter)),
     Years |-> SortByStart(SelectSeq(periods, IsYear))]

SortAll(ps) ==
    [ps EXCEPT !.Months = SortByStart(ps.Months),
               !.Quarters = SortByStart(ps.Quarters),
               !.Years = SortByStart(ps.Years)]

\* FindByID returns nil for an unknown id
NilPeriod == [nil |-> TRUE]

FindByID(ps, id) ==
    IF id \in DOMAIN ps.Periods THEN ps.Periods[id] ELSE NilPeriod

-----------------------------------------------------------------------------
(* Range decomposition                                                     *)

\* the earlier draft of the loop: a month is taken when its START lies in
\* the range
RECURSIVE BreakDownLoop_StartOnly(_, _, _, _)
BreakDownLoop_StartOnly(months, i, rangeStart, rangeEnd) ==
    IF i > Len(months) THEN <<>>
    ELSE (IF ~Before(months[i].StartDate, rangeStart)
             /\ ~After(months[i].StartDate, rangeEnd)
          THEN <<months[i].ID>> ELSE <<>>)
         \o BreakDownLoop_StartOnly(months, i + 1, rangeStart, rangeEnd)

\* the loop over ps.Months, from index i on
RECURSIVE BreakDownLoop(_, _, _, _)
BreakDownLoop(months, i, rangeStart, rangeEnd) ==
    IF i > Len(months) THEN <<>>
    ELSE (IF ~Before(months[i].StartDate, rangeStart)
             /\ ~After(months[i].EndDate, rangeEnd)
          THEN <<months[i].ID>> ELSE <<>>)
         \o BreakDownLoop(months, i + 1, rangeStart, rangeEnd)

\* a lookup that falls back on the start period when the end ID is unknown
BreakDownTradePeriodRange_EndDefaultsToStart(ps, pr) ==
    LET startPeriod == FindByID(ps, pr.StartPeriodID)
        endPeriod == IF FindByID(ps, pr.EndPeriodID) = NilPeriod
                     THEN startPeriod ELSE FindByID(ps, pr.EndPeriodID)
    IN  IF startPeriod = NilPeriod \/ endPeriod = NilPeriod THEN <<>>
        ELSE IF After(startPeriod.StartDate, endPeriod.EndDate) THEN <<>>
        ELSE BreakDownLoop(ps.Months, 1, startPeriod.StartDate,
                           endPeriod.EndDate)

BreakDownTradePeriodRange(ps, pr) ==
    LET startPeriod == FindByID(ps, pr.StartPeriodID)
        endPeriod == FindByID(ps, pr.EndPeriodID)
    IN  IF startPeriod = NilPeriod \/ endPeriod = NilPeriod THEN <<>>
        ELSE IF After(startPeriod.StartDate, endPeriod.EndDate) THEN <<>>
        ELSE BreakDownLoop(ps.Months, 1, startPeriod.StartDate,
                           endPeriod.EndDate)

-----------------------------------------------------------------------------
(* Package period: the earlier generator and the decomposition of a single *)
(* period through ChildPeriodIDs                                           *)

\* the first n quarter IDs of year y
QuarterIDs(y, n) == [q \in 1 .. n |-> ToString(y) \o "-Q" \o ToString(q)]

\* GeneratePeriods of package period.  It differs from the one above in how
\* the year gets its quarters: through yearPtr, a pointer to the element of
\* periods the year was appended as.  Once append has moved periods to a
\* larger array the pointer refers to the old array, so the returned year
\* holds the quarters linked before the first such move; kept[y] is their
\* number, which depends on the capacities append chooses.
period_GeneratePeriods(startYear, endYear, kept) ==
    CHOOSE out \in
      { [i \in 1 .. Len(g) |->
            IF IsYear(g[i])
            THEN [g[i] EXCEPT !.ChildPeriodIDs =
                    QuarterIDs(YearOf(g[i].StartDate),
                               kept[YearOf(g[i].StartDate)])]
            ELSE g[i]]
        : g \in {GeneratePeriods(startYear, endYear)} } : TRUE

\* ps.BreakDownTradePeriod(periodID); the second operator is the loop over
\* p.ChildPeriodIDs from index k on
RECURSIVE period_BreakDownTradePeriod(_, _), period_BreakDownChildren(_, _, _)
period_BreakDownTradePeriod(ps, periodID) ==
    IF FindByID(ps, periodID) = NilPeriod THEN <<>>
    ELSE IF FindByID(ps, periodID).Granularity = MonthlyPeriod
    THEN <<FindByID(ps, periodID).ID>>
    ELSE period_BreakDownChildren(ps, FindByID(ps, periodID).ChildPeriodIDs, 1)

period_BreakDownChildren(ps, childIDs, k) ==
    IF k > Len(childIDs) THEN <<>>
    ELSE (IF FindByID(ps, childIDs[k]) = NilPeriod THEN <<>>
          ELSE IF FindByID(ps, childIDs[k]).Granularity = QuarterlyPeriod
          THEN period_BreakDownTradePeriod(ps, childIDs[k])
          ELSE IF FindByID(ps, childIDs[k]).Granularity = MonthlyPeriod
          THEN <<childIDs[k]>>
          ELSE <<>>)
         \o period_BreakDownChildren(ps, childIDs, k + 1)

\* the loop of BreakDownTradePeriodRange of package period over ps.Months
RECURSIVE period_RangeLoop(_, _, _, _)
period_RangeLoop(months, i, startDate, endDate) ==
    IF i > Len(months) THEN <<>>
    ELSE (IF ~Before(months[i].StartDate, startDate)
             /\ ~After(months[i].StartDate, endDate)
          THEN <<months[i].ID>> ELSE <<>>)
         \o period_RangeLoop(months, i + 1, startDate, endDate)

\* ps.BreakDownTradePeriodRange(pr) of package period
period_BreakDownTradePeriodRange(ps, pr) ==
    IF FindByID(ps, pr.StartPeriodID) = NilPeriod
       \/ FindByID(ps, pr.EndPeriodID) = NilPeriod
    THEN <<>>
    ELSE period_RangeLoop(ps.Months, 1,
                          FindByID(ps, pr.StartPeriodID).StartDate,
                          FindByID(ps, pr.EndPeriodID).EndDate)

-----------------------------------------------------------------------------
(* Fiscal overlay generator                                                *)

FiscalCalendarConfig(startYear, startMonth) ==
    [StartYear |-> startYear, StartMonth |-> startMonth]

\* fyEnd := fyStart.AddDate(1, 0, 0).Add(-time.Nanosecond)
FiscalYearEnd(fyStart) == AddDate(fyStart, 1, 0) - Nanosecond

\* the calendar test of the filter dropped: any month inside the range counts
FiscalMonths_AnyCalendar(months, fyStart, fyEnd) ==
    LET InFiscalYear(m) ==
            /\ m.Granularity = MonthlyPeriod
            /\ ~Before(m.StartDate, fyStart)
            /\ ~After(m.EndDate, fyEnd)
    IN  SelectSeq(months, InFiscalYear)

\* Step 2: the Gregorian months that lie inside [fyStart, fyEnd]
FiscalMonths(months, fyStart, fyEnd) ==
    LET InFiscalYear(m) ==
            /\ ~(m.Calendar # CalendarGregorian
                 \/ m.Granularity # MonthlyPeriod)
            /\ ~Before(m.StartDate, fyStart)
            /\ ~After(m.EndDate, fyEnd)
    IN  SelectSeq(months, InFiscalYear)

\* a quarter slice advancing two months per quarter instead of three
QuarterSlice_Stride2(fyMonths, q) == SubSeq(fyMonths, q * 2 + 1, q * 2 + 3)

\* qMonths = fyMonths[q*3 : q*3+3]
QuarterSlice(fyMonths, q) == SubSeq(fyMonths, q * 3 + 1, q * 3 + 3)

\* Step 4, one iteration of the loop over q = 0..3
FiscalQuarter(cfg, fyID, fyMonths, q) ==
    LET qMonths == QuarterSlice(fyMonths, q)
        qID == "FY" \o ToString(cfg.StartYear) \o "-Q" \o ToString(q + 1)
    IN  Period(qID,
               "FY" \o ToString(cfg.StartYear) \o " Q" \o ToString(q + 1),
               CalendarFiscal, QuarterlyPeriod, fyID,
               [i \in 1 .. Len(qMonths) |-> qMonths[i].ID],
               qMonths[1].StartDate, qMonths[Len(qMonths)].EndDate)

\* result of GenerateFiscalYear: the periods and whether an error is returned
GenerateFiscalYear(months, cfg) ==
    LET fyStart == Date(cfg.StartYear, cfg.StartMonth)
        fyEnd == FiscalYearEnd(fyStart)
        fyMonths == FiscalMonths(months, fyStart, fyEnd)
        fyID == "FY" \o ToString(cfg.StartYear)
        quarters == [k \in 1 .. 4 |-> FiscalQuarter(cfg, fyID, fyMonths, k - 1)]
    IN  IF Len(fyMonths) # 12
        THEN [periods |-> <<>>, err |-> TRUE, found |-> Len(fyMonths)]
        ELSE [periods |->
                <<Period(fyID, "Fiscal Year " \o ToString(cfg.StartYear),
                         CalendarFiscal, CalendarYearPeriod, NilParent,
                         [k \in 1 .. 4 |-> quarters[k].ID], fyStart, fyEnd)>>
                \o quarters,
              err |-> FALSE, found |-> 12]

-----------------------------------------------------------------------------
(* Hierarchy validator                                                     *)

GranularityRank(p) ==
    CASE p.Granularity = MonthlyPeriod -> 1
      [] p.Granularity = QuarterlyPeriod -> 2
      [] p.Granularity = CalendarYearPeriod -> 3
      [] OTHER -> 99

Violation(kind, id, other) == [kind |-> kind, id |-> id, other |-> other]

When(cond, v) == IF cond THEN <<v>> ELSE <<>>

\* the month branch of the loop body
MonthViolations(ps, p) ==
    When(p.Calendar # CalendarGregorian,
         Violation("month_invalid_calendar", p.ID, p.Calendar))
    \o
    (IF p.ParentPeriodID = NilParent THEN <<>>
     ELSE IF p.ParentPeriodID \notin DOMAIN ps.Periods
     THEN <<Violation("month_missing_parent", p.ID, p.ParentPeriodID)>>
     ELSE LET parent == ps.Periods[p.ParentPeriodID]
          IN  When(parent.Calendar # CalendarGregorian,
                   Violation("month_non_gregorian_parent", p.ID, parent.ID))
              \o When(GranularityRank(parent) <= GranularityRank(p),
                      Violation("month_invalid_parent_granularity", p.ID,
                                parent.Granularity))
              \o When(After(parent.StartDate, p.StartDate)
                        \/ Before(parent.EndDate, p.EndDate),
                      Violation("month_not_contained", p.ID, parent.ID)))

\* Rule 5 dropped: the parent's dates are never compared
ContainmentViolations_Skipped(p, parent) == <<>>

\* Rule 5: date containment
ContainmentViolations(p, parent) ==
    When(After(parent.StartDate, p.StartDate),
         Violation("starts_before_parent", p.ID, parent.ID))
    \o When(Before(parent.EndDate, p.EndDate),
            Violation("ends_after_parent", p.ID, parent.ID))

\* the branch for all non-year, non-month periods
QuarterViolations(ps, p) ==
    IF p.ParentPeriodID = NilParent
    THEN <<Violation("no_parent", p.ID, p.Granularity)>>
    ELSE IF p.ParentPeriodID \notin DOMAIN ps.Periods
    THEN <<Violation("missing_parent", p.ID, p.ParentPeriodID)>>
    ELSE LET parent == ps.Periods[p.ParentPeriodID]
         IN  IF parent.Calendar # p.Calendar
             THEN <<Violation("calendar_mismatch", p.ID, parent.ID)>>
             ELSE When(parent.ID = p.ID,
                       Violation("self_reference", p.ID, parent.ID))
                  \o When(GranularityRank(parent) <= GranularityRank(p),
                          Violation("granularity_order", p.ID, parent.ID))
                  \o ContainmentViolations(p, parent)

\* the month special case forgotten: months go through the generic branch
PeriodViolations_MonthsAsQuarters(ps, p) ==
    IF p.Granularity = CalendarYearPeriod THEN <<>>
    ELSE QuarterViolations(ps, p)

\* the loop body for one period
PeriodViolations(ps, p) ==
    IF p.Granularity = CalendarYearPeriod THEN <<>>
    ELSE IF p.Granularity = MonthlyPeriod THEN MonthViolations(ps, p)
    ELSE QuarterViolations(ps, p)

RECURSIVE ListViolations(_, _, _)
ListViolations(ps, periodList, i) ==
    IF i > Len(periodList) THEN <<>>
    ELSE PeriodViolations(ps, periodList[i])
         \o ListViolations(ps, periodList, i + 1)

ValidateHierarchy(ps) ==
    IF ps = NilStore THEN <<Violation("store_not_initialised", "", "")>>
    ELSE ListViolations(ps, ps.Years, 1)
         \o ListViolations(ps, ps.Quarters, 1)
         \o ListViolations(ps, ps.Months, 1)

-----------------------------------------------------------------------------
(* Fiscal coverage validator                                               *)

IsFiscalYear(y) ==
    y.Calendar = CalendarFiscal /\ y.Granularity = CalendarYearPeriod

\* Rule 2 looking for gaps only: a month that starts before the previous
\* one ends is let through
RECURSIVE GapViolations_GapsOnly(_, _, _)
GapViolations_GapsOnly(fy, months, i) ==
    IF i > Len(months) THEN <<>>
    ELSE When(months[i].StartDate > months[i - 1].EndDate + Nanosecond,
              Violation("gap_or_overlap", fy.ID, months[i].ID))
         \o GapViolations_GapsOnly(fy, months, i + 1)

\* Rule 2, from index i on
RECURSIVE GapViolations(_, _, _)
GapViolations(fy, months, i) ==
    IF i > Len(months) THEN <<>>
    ELSE When(months[i].StartDate # months[i - 1].EndDate + Nanosecond,
              Violation("gap_or_overlap", fy.ID, months[i].ID))
         \o GapViolations(fy, months, i + 1)

\* the rules applied one after the other, stopping at the first broken one
CoverageViolations_FirstOnly(ps, fy) ==
    LET Inside(m) == ~Before(m.StartDate, fy.StartDate)
                     /\ ~After(m.EndDate, fy.EndDate)
        months == SortByStart(SelectSeq(ps.Months, Inside))
        all == When(Len(months) # 12,
                    Violation("month_count", fy.ID, Len(months)))
               \o GapViolations(fy, months, 2)
               \o (IF Len(months) > 0
                   THEN When(months[1].StartDate # fy.StartDate,
                             Violation("start_not_on_boundary", fy.ID,
                                       months[1].StartDate))
                        \o When(months[Len(months)].EndDate # fy.EndDate,
                                Violation("end_not_on_boundary", fy.ID,
                                          months[Len(months)].EndDate))
                   ELSE <<>>)
    IN  IF all = <<>> THEN <<>> ELSE <<all[1]>>

\* Step 2 for one fiscal year
CoverageViolations(ps, fy) ==
    LET Inside(m) == ~Before(m.StartDate, fy.StartDate)
                     /\ ~After(m.EndDate, fy.EndDate)
        months == SortByStart(SelectSeq(ps.Months, Inside))
    IN  When(Len(months) # 12,
             Violation("month_count", fy.ID, Len(months)))
        \o GapViolations(fy, months, 2)
        \o (IF Len(months) > 0
            THEN When(months[1].StartDate # fy.StartDate,
                      Violation("start_not_on_boundary", fy.ID,
                                months[1].StartDate))
                 \o When(months[Len(months)].EndDate # fy.EndDate,
                         Violation("end_not_on_boundary", fy.ID,
                                   months[Len(months)].EndDate))
            ELSE <<>>)

RECURSIVE FiscalYearViolations(_, _, _)
FiscalYearViolations(ps, fiscalYears, i) ==
    IF i > Len(fiscalYears) THEN <<>>
    ELSE CoverageViolations(ps, fiscalYears[i])
         \o FiscalYearViolations(ps, fiscalYears, i + 1)

ValidateFiscalCoverage(ps) ==
    IF ps = NilStore THEN <<Violation("store_not_initialised", "", "")>>
    ELSE FiscalYearViolations(ps, SelectSeq(ps.Years, IsFiscalYear), 1)

-----------------------------------------------------------------------------
(* Overlap detector                                                        *)

\* t.Format("2006-01-02"): the day of the instant
fmtDate(t) == t \div TicksPerDay

\* the message built by fmt.Sprintf, kept as its arguments
OverlapMessage(granularity, prev, curr) ==
    [granularity |-> granularity,
     prev |-> prev.ID, prevStart |-> fmtDate(prev.StartDate),
     prevEnd |-> fmtDate(prev.EndDate),
     curr |-> curr.ID, currStart |-> fmtDate(curr.StartDate),
     currEnd |-> fmtDate(curr.EndDate)]

\* a scan that takes a period starting right after the previous one for an
\* overlap
RECURSIVE OverlapScan_Abutting(_, _, _)
OverlapScan_Abutting(granularity, list, i) ==
    IF i > Len(list) THEN <<>>
    ELSE (IF list[i].StartDate <= list[i - 1].EndDate + Nanosecond
          THEN <<OverlapMessage(granularity, list[i - 1], list[i])>>
          ELSE <<>>)
         \o OverlapScan_Abutting(granularity, list, i + 1)

\* the inner loop over one sorted group, from index i on
RECURSIVE OverlapScan(_, _, _)
OverlapScan(granularity, list, i) ==
    IF i > Len(list) THEN <<>>
    ELSE (IF Before(list[i].StartDate, list[i - 1].EndDate)
          THEN <<OverlapMessage(granularity, list[i - 1], list[i])>>
          ELSE <<>>)
         \o OverlapScan(granularity, list, i + 1)

\* grouped[granularity], in the order the periods were given
GroupOf(periods, granularity) ==
    LET InGroup(p) == p.Granularity = granularity
    IN  SelectSeq(periods, InGroup)

\* the keys of grouped: the three the map is created with and every
\* granularity met in periods
GroupKeys(periods) ==
    {CalendarYearPeriod, QuarterlyPeriod, MonthlyPeriod}
        \cup { periods[i].Granularity : i \in 1 .. Len(periods) }

\* one pass of the outer loop: the group is sorted, then scanned
GroupOverlaps(periods, granularity) ==
    CHOOSE out \in
      { OverlapScan(granularity, list, 2)
        : list \in {SortByStart(GroupOf(periods, granularity))} } : TRUE

\* the outer loop from the k-th key on; order is the order in which range
\* yields the keys of the map, which Go leaves unspecified
RECURSIVE DetectOverlapsFrom(_, _, _)
DetectOverlapsFrom(periods, order, k) ==
    IF k > Len(order) THEN <<>>
    ELSE GroupOverlaps(periods, order[k])
         \o DetectOverlapsFrom(periods, order, k + 1)

DetectOverlaps(periods, order) == DetectOverlapsFrom(periods, order, 1)

-----------------------------------------------------------------------------
(* Repository: the periods table                                           *)

\* the columns SavePeriods inserts; ChildPeriodIDs is not a column
Row(p) ==
    [ID |-> p.ID, Name |-> p.Name, Calendar |-> p.Calendar,
     Granularity |-> p.Granularity, ParentPeriodID |-> p.ParentPeriodID,
     StartDate |-> p.StartDate, EndDate |-> p.EndDate]

\* a SELECT that leaves parent_period_id out as well
ScanRow_ParentDropped(r) ==
    Period(r.ID, r.Name, CalendarUnset, r.Granularity, NilParent, <<>>,
           r.StartDate, r.EndDate)

\* rows.Scan of one row: the SELECT names id, name, granularity,
\* parent_period_id, start_date, end_date; Calendar and ChildPeriodIDs keep
\* their zero values
ScanRow(r) ==
    Period(r.ID, r.Name, CalendarUnset, r.Granularity, r.ParentPeriodID,
           <<>>, r.StartDate, r.EndDate)

GetAllPeriods(rows) == [i \in 1 .. Len(rows) |-> ScanRow(rows[i])]

\* Period.Validate: TRUE when an error is returned.  The empty-ID branch
\* builds an error value and drops it, so an empty ID is not rejected.
Validate(p) ==
    \/ p.Name = ""
    \/ p.Granularity \notin {CalendarYearPeriod, QuarterlyPeriod, MonthlyPeriod}
    \/ ~Before(p.StartDate, p.EndDate)

\* SavePeriods in one transaction: either every row is inserted or none.
\* dbFails is the database refusing the transaction.
SavePeriods(rows, periods, dbFails) ==
    IF Len(periods) = 0 THEN [db |-> rows, err |-> FALSE]
    ELSE IF \/ dbFails
            \/ \E i \in 1 .. Len(periods) : Validate(periods[i])
            \/ \E i \in 1 .. Len(periods), j \in 1 .. Len(rows) :
                    periods[i].ID = rows[j].ID
         THEN [db |-> rows, err |-> TRUE]
         ELSE [db |-> rows \o [i \in 1 .. Len(periods) |-> Row(periods[i])],
               err |-> FALSE]

-----------------------------------------------------------------------------
(* PeriodService                                                           *)

Call(name, err) == [call |-> name, err |-> err]

\* an overlay that takes over the months of a fiscal quarter: each child
\* month is given the merged period as its parent
MergePeriod_Reparent(ps, p) ==
    LET children == { p.ChildPeriodIDs[k] : k \in 1 .. Len(p.ChildPeriodIDs) }
        Adopt(m) == IF m.ID \in children /\ m.Granularity = MonthlyPeriod
                    THEN [m EXCEPT !.ParentPeriodID = p.ID] ELSE m
        withMap == [ps EXCEPT
                      !.Periods = [id \in DOMAIN ps.Periods \cup {p.ID} |->
                                     IF id = p.ID THEN p
                                     ELSE Adopt(ps.Periods[id])],
                      !.Months = [i \in 1 .. Len(ps.Months) |->
                                     Adopt(ps.Months[i])]]
    IN  IF p.Granularity = CalendarYearPeriod
        THEN [withMap EXCEPT !.Years = Append(@, p)]
        ELSE IF p.Granularity = QuarterlyPeriod
        THEN [withMap EXCEPT !.Quarters = Append(@, p)]
        ELSE withMap

\* lines 163-172: one fiscal period is put into the map and its bucket
MergePeriod(ps, p) ==
    LET withMap == [ps EXCEPT !.Periods =
                        [id \in DOMAIN ps.Periods \cup {p.ID} |->
                            IF id = p.ID THEN p ELSE ps.Periods[id]]]
    IN  IF p.Granularity = CalendarYearPeriod
        THEN [withMap EXCEPT !.Years = Append(@, p)]
        ELSE IF p.Granularity = QuarterlyPeriod
        THEN [withMap EXCEPT !.Quarters = Append(@, p)]
        ELSE withMap

\* a loop that puts every fiscal period into the store twice
RECURSIVE MergeOverlay_Twice(_, _, _)
MergeOverlay_Twice(ps, fiscalPeriods, i) ==
    IF i > Len(fiscalPeriods) THEN ps
    ELSE MergeOverlay_Twice(MergePeriod(MergePeriod(ps, fiscalPeriods[i]),
                                        fiscalPeriods[i]),
                            fiscalPeriods, i + 1)

RECURSIVE MergeOverlay(_, _, _)
MergeOverlay(ps, fiscalPeriods, i) ==
    IF i > Len(fiscalPeriods) THEN ps
    ELSE MergeOverlay(MergePeriod(ps, fiscalPeriods[i]), fiscalPeriods, i + 1)

\* STEP 4: the loop over fiscalConfigs from index i on.  Each step's result
\* is bound once ({ e : x \in {step} }) and then used as a value.
RECURSIVE OverlayLoop(_, _, _, _, _, _)
OverlayLoop(ps, rows, fiscalConfigs, i, dbFails, log) ==
    IF i > Len(fiscalConfigs)
    THEN [store |-> ps, db |-> rows, err |-> FALSE, log |-> log]
    ELSE LET cfg == fiscalConfigs[i]
             fyID == "FY" \o ToString(cfg.StartYear)
         IN  IF FindByID(ps, fyID) # NilPeriod
                /\ FindByID(ps, fyID \o "-Q1") # NilPeriod
             THEN OverlayLoop(ps, rows, fiscalConfigs, i + 1, dbFails, log)
             ELSE CHOOSE out \in
                    { IF gen.err
                      THEN [store |-> ps, db |-> rows, err |-> TRUE,
                            log |-> Append(log, Call("GenerateFiscalYear",
                                                     TRUE))]
                      ELSE CHOOSE after \in
                             { IF saved.err
                               THEN [store |-> ps, db |-> rows, err |-> TRUE,
                                     log |-> log \o
                                        <<Call("GenerateFiscalYear", FALSE),
                                          Call("SavePeriods", TRUE)>>]
                               ELSE OverlayLoop(merged, saved.db,
                                        fiscalConfigs, i + 1, dbFails,
                                        log \o
                                        <<Call("GenerateFiscalYear", FALSE),
                                          Call("SavePeriods", FALSE)>>)
                               : saved \in {SavePeriods(rows, gen.periods,
                                                        dbFails)},
                                 merged \in {MergeOverlay(ps, gen.periods,
                                                          1)} } : TRUE
                      : gen \in {GenerateFiscalYear(ps.Months, cfg)} } : TRUE

\* the hierarchy check forgotten: only the coverage list decides
ValidationResult_IgnoreHierarchy(hErrs, cErrs) ==
    IF Len(cErrs) > 0 THEN "error" ELSE "nil"

\* STEP 5 and STEP 6: what InitializePeriods returns after validation
ValidationResult(hErrs, cErrs) ==
    IF Len(hErrs) > 0 THEN "error"
    ELSE IF Len(cErrs) > 0 THEN "error"
    ELSE "nil"

\* the calls InitializePeriods makes from line 175 on, given their results
ValidationLog(hErrs, cErrs) ==
    <<Call("SortAll", FALSE), Call("ValidateHierarchy", Len(hErrs) > 0)>>
    \o (IF Len(hErrs) > 0 THEN <<>>
        ELSE <<Call("ValidateFiscalCoverage", Len(cErrs) > 0)>>)

\* InitializePeriods from line 175 on: SortAll, then the two validators
ValidateStore(ps, rows, log) ==
    CHOOSE out \in
      { [store |-> sorted, db |-> rows,
         result |-> ValidationResult(ValidateHierarchy(sorted),
                                     ValidateFiscalCoverage(sorted)),
         log |-> log \o ValidationLog(ValidateHierarchy(sorted),
                                      ValidateFiscalCoverage(sorted))]
        : sorted \in {SortAll(ps)} } : TRUE

\* STEP 3 to STEP 6, once the periods are loaded or generated and saved
InitializeStore(periods, rows, fiscalConfigs, dbFails, log) ==
    CHOOSE out \in
      { IF overlay.err
        THEN [store |-> overlay.store, db |-> overlay.db,
              result |-> "error", log |-> overlay.log]
        ELSE ValidateStore(overlay.store, overlay.db, overlay.log)
        : overlay \in {OverlayLoop(NewPeriodStore(periods), rows,
                                   fiscalConfigs, 1, dbFails,
                                   Append(log, Call("NewPeriodStore",
                                                    FALSE)))} } : TRUE

\* STEP 2: no period was loaded, so the calendar is generated and saved
GenerateAndSave(ps, rows, startYear, endYear, fiscalConfigs, saveFails) ==
    CHOOSE out \in
      { IF saved.err
        THEN [store |-> ps, db |-> rows, result |-> "error",
              log |-> <<Call("GetAllPeriods", FALSE),
                        Call("GeneratePeriods", FALSE),
                        Call("SavePeriods", TRUE)>>]
        ELSE InitializeStore(periods, saved.db, fiscalConfigs,
                             saveFails = "fiscal",
                             <<Call("GetAllPeriods", FALSE),
                               Call("GeneratePeriods", FALSE),
                               Call("SavePeriods", FALSE)>>)
        : periods \in {GeneratePeriods(startYear, endYear)},
          saved \in {SavePeriods(rows, GeneratePeriods(startYear, endYear),
                                 saveFails = "calendar")} } : TRUE

\* The whole of InitializePeriods.  ps is s.store before the call; loadFails
\* and saveFails are the repository failing GetAllPeriods and the SavePeriods
\* of the named step ("calendar", "fiscal" or "none").
InitializePeriodsRun(ps, rows, startYear, endYear, cfgs, loadFails, saveFails) ==
    IF startYear > endYear
    THEN [store |-> ps, db |-> rows, result |-> "error", log |-> <<>>]
    ELSE IF loadFails
    THEN [store |-> ps, db |-> rows, result |-> "error",
          log |-> <<Call("GetAllPeriods", TRUE)>>]
    ELSE IF Len(GetAllPeriods(rows)) = 0
    THEN GenerateAndSave(ps, rows, startYear, endYear, cfgs,
                         saveFails)
    ELSE CHOOSE out \in
           { InitializeStore(loaded, rows, cfgs,
                             saveFails = "fiscal",
                             <<Call("GetAllPeriods", FALSE)>>)
             : loaded \in {GetAllPeriods(rows)} } : TRUE

-----------------------------------------------------------------------------
(* Inputs of the service specification                                     *)

Cal2026 == GeneratePeriods(2026, 2026)

Rows(periods) == [i \in 1 .. Len(periods) |-> Row(periods[i])]

FY2026Year ==
    Period("FY2026", "Fiscal Year 2026", CalendarFiscal, CalendarYearPeriod,
           NilParent, <<>>, Date(2026, 4), FiscalYearEnd(Date(2026, 4)))

FY2026Q1 ==
    Period("FY2026-Q1", "FY2026 Q1", CalendarFiscal, QuarterlyPeriod,
           "FY2026", <<>>, Date(2026, 4), Date(2026, 7) - Nanosecond)

\* contents the periods table may hold when the process starts
DBChoices ==
    { <<>>,                          \* first run
      Rows(Cal2026),                 \* what an earlier run generated and saved
      Rows(<<Cal2026[1]>>),          \* the year 2026 alone
      Rows(<<Cal2026[1], Cal2026[5]>>),   \* 2026 and 2026-Q1
      Rows(<<Cal2026[5]>>),          \* 2026-Q1 without its year
      Rows(<<Cal2026[1], Cal2026[5], FY2026Year, FY2026Q1>>) }

FiscalConfigChoices ==
    { <<>>,
      <<FiscalCalendarConfig(2026, 4)>>,
      <<FiscalCalendarConfig(2026, 1), FiscalCalendarConfig(2026, 4)>> }

SaveFailureChoices == {"none", "calendar", "fiscal"}

RangeIDs ==
    {"2026", "2026-Q1", "2026-Q2", "2026-JAN", "2027-Q2", "FY2026", "2099-Q9"}

PeriodRange(startID, endID) ==
    [StartPeriodID |-> startID, EndPeriodID |-> endID]

NoRange == PeriodRange("", "")

NoArgs == [startYear |-> 0, endYear |-> 0, fiscalConfigs |-> <<>>]

-----------------------------------------------------------------------------
(* Spec: the PeriodService                                                 *)

Init ==
    /\ db \in DBChoices
    /\ store = NilStore
    /\ initResult = "none"
    /\ initArgs = NoArgs
    /\ callLog = <<>>
    /\ lastRange = NoRange
    /\ lastBreakdown = <<>>
    /\ fn = "none"
    /\ arg = <<>>
    /\ ret = <<>>

\* InitializePeriods(ctx, startYear, endYear, fiscalConfigs), called once at
\* startup
InitializePeriods ==
    /\ initResult = "none"
    /\ \E startYear \in YearRange, endYear \in YearRange,
          fiscalConfigs \in FiscalConfigChoices,
          loadFails \in BOOLEAN, saveFails \in SaveFailureChoices :
            \E run \in {InitializePeriodsRun(store, db, startYear, endYear,
                                              fiscalConfigs, loadFails,
                                              saveFails)} :
                /\ store' = run.store
                /\ db' = run.db
                /\ initResult' = run.result
                /\ callLog' = run.log
                /\ initArgs' = [startYear |-> startYear, endYear |-> endYear,
                                fiscalConfigs |-> fiscalConfigs]
    /\ UNCHANGED <<lastRange, lastBreakdown, fn, arg, ret>>

\* PeriodService.BreakDownTradeRange(pr)
BreakDownTradeRange ==
    /\ \E startID \in RangeIDs, endID \in RangeIDs :
            /\ lastRange' = PeriodRange(startID, endID)
            /\ lastBreakdown' =
                    IF store = NilStore THEN <<>>
                    ELSE BreakDownTradePeriodRange(store,
                                                   PeriodRange(startID, endID))
    /\ UNCHANGED <<db, store, initResult, initArgs, callLog, fn, arg, ret>>

Next == InitializePeriods \/ BreakDownTradeRange

Spec == Init /\ [][Next]_vars

-----------------------------------------------------------------------------
(* Inputs of the domain functions                                          *)

\* every (startYear, endYear) a caller may pass, reversed ranges included
YearPairs == YearRange \X YearRange

\* stores built from GeneratePeriods over a non-empty range of years
GeneratedStores ==
    { NewPeriodStore(GeneratePeriods(yy[1], yy[2])) :
        yy \in {pair \in YearPairs : pair[1] <= pair[2]} }

\* a trade period that ends in the middle of February 2026
HalfFebruary ==
    Period("2026-JAN-FEB15", "January to mid February 2026", CalendarUnset,
           QuarterlyPeriod, "2026", <<>>, Date(2026, 1),
           Date(2026, 2) + 14 * TicksPerDay)

\* February and January 2026 handed over in that order, with HalfFebruary
UnalignedStore == NewPeriodStore(<<Cal2026[3], Cal2026[2], HalfFebruary>>)

BreakdownStores == GeneratedStores \cup {UnalignedStore}

UnknownID == "2099-Q9"

\* the months GeneratePeriods yields for every year of the model
AllMonths == SelectSeq(GeneratePeriods(2026, MaxYear), IsMonth)

\* the periods with the Calendar field set, as a caller that fills it does
Stamp(periods, cal) ==
    [i \in 1 .. Len(periods) |-> [periods[i] EXCEPT !.Calendar = cal]]

Without(periods, k) ==
    SubSeq(periods, 1, k - 1) \o SubSeq(periods, k + 1, Len(periods))

MonthListChoices ==
    { Stamp(AllMonths, CalendarGregorian),
      AllMonths,
      Stamp(AllMonths, CalendarFiscal),
      SubSeq(Stamp(AllMonths, CalendarGregorian), 1, 12),
      [Stamp(AllMonths, CalendarGregorian) EXCEPT ![6] = AllMonths[6]] }
    \cup { Without(Stamp(AllMonths, CalendarGregorian), k) : k \in {4, 9, 15} }

FiscalConfigInputs ==
    { FiscalCalendarConfig(y, m) : y \in YearRange, m \in {1, 4, 10} }

\* date ranges a hand-built quarter or month may carry: April to June 2026,
\* April 2026 to January 2027, March to June 2026, April 2026 alone
HandDates ==
    [AprJun |-> <<Date(2026, 4), Date(2026, 7) - Nanosecond>>,
     AprJan |-> <<Date(2026, 4), Date(2027, 2) - Nanosecond>>,
     MarJun |-> <<Date(2026, 3), Date(2026, 7) - Nanosecond>>,
     Apr    |-> <<Date(2026, 4), Date(2026, 5) - Nanosecond>>]

CalendarChoices == {CalendarGregorian, CalendarFiscal, CalendarUnset}

\* a store of five hand-built periods: the calendar year 2026, the fiscal
\* year FY2026, one quarter, one month, and a period of a granularity the
\* store keeps in its map only
HandStore(yParent, qCal, qParent, qDates, mCal, mParent, mDates) ==
    NewPeriodStore(
      << Period("2026", "2026", CalendarGregorian, CalendarYearPeriod,
                yParent, <<>>, Date(2026, 1), Date(2027, 1) - Nanosecond),
         FY2026Year,
         Period("Q", "Quarter", qCal, QuarterlyPeriod, qParent, <<>>,
                HandDates[qDates][1], HandDates[qDates][2]),
         Period("M", "Month", mCal, MonthlyPeriod, mParent, <<>>,
                HandDates[mDates][1], HandDates[mDates][2]),
         Period("W", "Week", CalendarGregorian, "WEEKLY", NilParent, <<>>,
                Date(2026, 4), Date(2026, 4) + 7 * TicksPerDay - Nanosecond)
      >>)

HandStores ==
    { HandStore(yParent, qCal, qParent, qDates, mCal, mParent, mDates) :
        yParent \in {NilParent, "FY2026", "2026", UnknownID},
        qCal \in CalendarChoices,
        qParent \in {NilParent, "2026", "FY2026", "Q", "M", "W", UnknownID},
        qDates \in {"AprJun", "AprJan", "MarJun"},
        mCal \in CalendarChoices,
        mParent \in {NilParent, "Q", "2026", "FY2026", "M", "W", UnknownID},
        mDates \in {"Apr", "AprJan"} }

\* the list without the period of the given ID
WithoutID(periods, id) ==
    LET Other(p) == p.ID # id
    IN  SelectSeq(periods, Other)

Reversed(periods) ==
    [i \in 1 .. Len(periods) |-> periods[Len(periods) + 1 - i]]

\* period lists handed to NewPeriodStore at line 139: the generated calendar
\* with Calendar filled in, the same with March 2027 missing, the same in
\* reverse order, and the calendar as GeneratePeriods returns it
LoadedChoices ==
    { Stamp(GeneratePeriods(2026, MaxYear), CalendarGregorian),
      WithoutID(Stamp(GeneratePeriods(2026, MaxYear), CalendarGregorian),
                "2027-MAR"),
      Reversed(Stamp(GeneratePeriods(2026, MaxYear), CalendarGregorian)),
      GeneratePeriods(2026, MaxYear) }

\* fiscalConfigs: the fiscal year starting April of MaxYear is never covered
OverlayConfigChoices ==
    { <<>>,
      <<FiscalCalendarConfig(2026, 4)>>,
      <<FiscalCalendarConfig(MaxYear, 4)>>,
      <<FiscalCalendarConfig(2026, 4), FiscalCalendarConfig(MaxYear, 4)>>,
      <<FiscalCalendarConfig(MaxYear, 4), FiscalCalendarConfig(2026, 4)>>,
      <<FiscalCalendarConfig(2026, 1), FiscalCalendarConfig(2026, 4)>>,
      <<FiscalCalendarConfig(2026, 1), FiscalCalendarConfig(MaxYear, 1)>> }

FiscalYearPeriod(id, start, end) ==
    Period(id, "Fiscal Year", CalendarFiscal, CalendarYearPeriod, NilParent,
           <<>>, start, end)

\* fiscal years a store may hold: April 2026 and January 2026 (covered),
\* February of MaxYear (eleven months generated), the year after MaxYear
\* (none generated), April 2026 shifted by a day (starts and ends mid-month),
\* and April 2026 widened by a day at both ends
FiscalYearChoices ==
    { FY2026Year,
      FiscalYearPeriod("FY2026-JAN", Date(2026, 1),
                       FiscalYearEnd(Date(2026, 1))),
      FiscalYearPeriod("FY-SHORT", Date(MaxYear, 2),
                       FiscalYearEnd(Date(MaxYear, 2))),
      FiscalYearPeriod("FY-NONE", Date(MaxYear + 1, 1),
                       FiscalYearEnd(Date(MaxYear + 1, 1))),
      FiscalYearPeriod("FY-SHIFTED", Date(2026, 4) + TicksPerDay,
                       FiscalYearEnd(Date(2026, 4)) + TicksPerDay),
      FiscalYearPeriod("FY-WIDE", Date(2026, 4) - TicksPerDay,
                       FiscalYearEnd(Date(2026, 4)) + TicksPerDay) }

FiscalYearLists ==
    {<<>>} \cup { <<a>> : a \in FiscalYearChoices }
           \cup { pair \in FiscalYearChoices \X FiscalYearChoices :
                        pair[1] # pair[2] }

\* the period with the given ID starting a day early
StartingEarly(periods, id) ==
    [i \in 1 .. Len(periods) |->
        IF periods[i].ID = id
        THEN [periods[i] EXCEPT !.StartDate = @ - TicksPerDay]
        ELSE periods[i]]

\* calendars under the fiscal years: complete, June 2026 missing, June 2026
\* overlapping May, and as GeneratePeriods returns it (Calendar unset)
CoverageBases ==
    { Stamp(GeneratePeriods(2026, MaxYear), CalendarGregorian),
      WithoutID(Stamp(GeneratePeriods(2026, MaxYear), CalendarGregorian),
                "2026-JUN"),
      StartingEarly(Stamp(GeneratePeriods(2026, MaxYear), CalendarGregorian),
                    "2026-JUN"),
      GeneratePeriods(2026, MaxYear) }

CoverageStores ==
    { NewPeriodStore(base \o fys) :
        base \in CoverageBases, fys \in FiscalYearLists }

\* hand-built months of 2026: April; mid April to mid May; the first half
\* of April; May; and a month starting at the instant April ends
SyntheticMonths ==
    { Period("M-APR", "April", CalendarGregorian, MonthlyPeriod, NilParent,
             <<>>, Date(2026, 4), Date(2026, 5) - Nanosecond),
      Period("M-MID", "Mid April to mid May", CalendarGregorian,
             MonthlyPeriod, NilParent, <<>>,
             Date(2026, 4) + 14 * TicksPerDay,
             Date(2026, 5) + 14 * TicksPerDay - Nanosecond),
      Period("M-HALF", "First half of April", CalendarGregorian,
             MonthlyPeriod, NilParent, <<>>, Date(2026, 4),
             Date(2026, 4) + 14 * TicksPerDay - Nanosecond),
      Period("M-MAY", "May", CalendarGregorian, MonthlyPeriod, NilParent,
             <<>>, Date(2026, 5), Date(2026, 6) - Nanosecond),
      Period("M-EDGE", "From the last instant of April", CalendarGregorian,
             MonthlyPeriod, NilParent, <<>>, Date(2026, 5) - Nanosecond,
             Date(2026, 6) - Nanosecond) }

\* the generated calendar with Calendar filled in, followed by the fiscal
\* year GenerateFiscalYear builds on its months
WithFiscalOverlay(startMonth) ==
    LET calendar == Stamp(GeneratePeriods(2026, MaxYear), CalendarGregorian)
    IN  calendar
        \o GenerateFiscalYear(SelectSeq(calendar, IsMonth),
                              FiscalCalendarConfig(2026, startMonth)).periods

\* period lists handed to DetectOverlaps
OverlapInputs ==
    { [from |-> "GeneratePeriods",
       periods |-> GeneratePeriods(yy[1], yy[2])] : yy \in YearPairs }
    \cup { [from |-> "two months", periods |-> <<pair[1], pair[2]>>] :
             pair \in { pp \in SyntheticMonths \X SyntheticMonths :
                          pp[1] # pp[2] } }
    \cup { [from |-> "overlay", periods |-> WithFiscalOverlay(m)] :
             m \in {1, 4} }
    \cup { [from |-> "three months",
            periods |-> <<t[1], t[2], t[3]>>] :
             t \in { u \in SyntheticMonths \X SyntheticMonths
                              \X SyntheticMonths :
                       u[1] # u[2] /\ u[1] # u[3] /\ u[2] # u[3] } }

\* the orders in which range may yield the keys of grouped
GroupOrders(periods) ==
    { order \in [1 .. Cardinality(GroupKeys(periods)) -> GroupKeys(periods)] :
        \A i, j \in DOMAIN order : order[i] = order[j] => i = j }

\* tables a restarted process may find: those of DBChoices, the rows of the
\* generated calendar with the calendar column filled in, the rows of the
\* calendar of every year, and the calendar with the fiscal year 2026
StartupTables ==
    DBChoices
    \cup { Rows(Stamp(Cal2026, CalendarGregorian)),
           Rows(GeneratePeriods(2026, MaxYear)),
           Rows(WithFiscalOverlay(4)) }

\* start and end dates of a period handed to Validate: January 2026, an
\* empty range (start = end), and a reversed range
ValidateDates ==
    { <<Date(2026, 1), Date(2026, 2) - Nanosecond>>,
      <<Date(2026, 1), Date(2026, 1)>>,
      <<Date(2026, 2), Date(2026, 1)>> }

\* periods handed to Validate: each field the function reads takes a good
\* and a bad value
ValidateInputs ==
    { Period(id, name, CalendarGregorian, gran, NilParent, <<>>, d[1], d[2]) :
        id \in {"", "P"}, name \in {"", "Period"},
        gran \in {MonthlyPeriod, QuarterlyPeriod, CalendarYearPeriod,
                  "WEEKLY", ""},
        d \in ValidateDates }

\* periods a batch handed to SavePeriods is made of: two good ones and one
\* for each rule of Validate
BatchPeriods ==
    { Period(f[1], f[2], CalendarGregorian, f[3], NilParent, <<>>,
             Date(2026, 1), f[4]) :
        f \in { <<"A", "Period A", MonthlyPeriod, Date(2026, 2) - Nanosecond>>,
                <<"B", "Period B", QuarterlyPeriod, Date(2026, 4) - Nanosecond>>,
                <<"", "No ID", MonthlyPeriod, Date(2026, 2) - Nanosecond>>,
                <<"N", "", MonthlyPeriod, Date(2026, 2) - Nanosecond>>,
                <<"G", "Week", "WEEKLY", Date(2026, 2) - Nanosecond>>,
                <<"D", "Empty range", MonthlyPeriod, Date(2026, 1)>> } }

\* batches of one, two or three different periods
Batches ==
    { <<a>> : a \in BatchPeriods }
    \cup { pair \in BatchPeriods \X BatchPeriods : pair[1] # pair[2] }
    \cup { <<t[1], t[2], t[3]>> :
             t \in { u \in BatchPeriods \X BatchPeriods \X BatchPeriods :
                       /\ u[1].ID = "A" /\ u[2].ID = "B"
                       /\ u[3].ID \notin {"A", "B"} } }

\* the table before SavePeriods: empty, or holding the year 2026
BatchTables == { <<>>, Rows(<<Cal2026[1]>>) }

\* six periods, two of each granularity starting at the same instant: the
\* years 2026 and FY2026-JAN, the quarters 2026-Q2 and FY2026-Q1, the months
\* 2026-APR and M-APR
TiedPeriods ==
    << Cal2026[1],
       FiscalYearPeriod("FY2026-JAN", Date(2026, 1),
                        FiscalYearEnd(Date(2026, 1))),
       FindByID(NewPeriodStore(Cal2026), "2026-Q2"),
       FY2026Q1,
       FindByID(NewPeriodStore(Cal2026), "2026-APR"),
       Period("M-APR", "April", CalendarGregorian, MonthlyPeriod, NilParent,
              <<>>, Date(2026, 4), Date(2026, 5) - Nanosecond) >>

\* the orders in which a caller may hand the six periods over
TiedPeriodLists ==
    { [i \in 1 .. Len(TiedPeriods) |-> TiedPeriods[perm[i]]] :
        perm \in { f \in [1 .. Len(TiedPeriods) -> 1 .. Len(TiedPeriods)] :
                     \A i, j \in 1 .. Len(TiedPeriods) :
                        f[i] = f[j] => i = j } }

\* a store whose buckets were appended to in the order of periods and have
\* not been sorted since
AppendedStore(periods) ==
    [nil |-> FALSE,
     Periods |-> [id \in {periods[i].ID : i \in 1 .. Len(periods)} |->
                     periods[LastIndexOf(periods, id, Len(periods))]],
     Months |-> SelectSeq(periods, IsMonth),
     Quarters |-> SelectSeq(periods, IsQuarter),
     Years |-> SelectSeq(periods, IsYear)]

\* the number of quarters each year keeps in period_GeneratePeriods: none
\* for the first year, which is appended to an empty slice and moved by the
\* next append; any number for a later year
KeptChoices(startYear, endYear) ==
    { kept \in [startYear .. endYear -> 0 .. 4] : kept[startYear] = 0 }

\* period lists under the overlay loop: the calendar with Calendar filled
\* in; the same followed by the fiscal year FY2026 without its quarters; the
\* same followed by the whole fiscal year 2026; and the calendar as
\* GeneratePeriods returns it
OverlayBases ==
    { Stamp(GeneratePeriods(2026, MaxYear), CalendarGregorian),
      Append(Stamp(GeneratePeriods(2026, MaxYear), CalendarGregorian),
             FY2026Year),
      WithFiscalOverlay(4),
      GeneratePeriods(2026, MaxYear) }

\* the configurations the loop has been through before the step looked at
PriorConfigChoices ==
    { <<>>,
      <<FiscalCalendarConfig(2026, 4)>>,
      <<FiscalCalendarConfig(2026, 1)>>,
      <<FiscalCalendarConfig(MaxYear, 1)>> }

OverlayStepConfigs ==
    { FiscalCalendarConfig(2026, 4), FiscalCalendarConfig(2026, 1),
      FiscalCalendarConfig(MaxYear, 1), FiscalCalendarConfig(MaxYear, 4) }

-----------------------------------------------------------------------------
(* SpecPure: the domain functions applied to the inputs above.  The         *)
(* functions keep no state, so every behaviour applies one function once.  *)

InitPure ==
    /\ db = <<>>
    /\ store = NilStore
    /\ initResult = "none"
    /\ initArgs = NoArgs
    /\ callLog = <<>>
    /\ lastRange = NoRange
    /\ lastBreakdown = <<>>
    /\ fn = "none"
    /\ arg = <<>>
    /\ ret = <<>>

\* periods := GeneratePeriods(startYear, endYear)
CallGeneratePeriods ==
    /\ fn = "none"
    /\ \E yy \in YearPairs :
            /\ fn' = "GeneratePeriods"
            /\ arg' = [startYear |-> yy[1], endYear |-> yy[2]]
            /\ ret' = GeneratePeriods(yy[1], yy[2])
    /\ UNCHANGED svcVars

\* ValidateHierarchy on a store that holds what GeneratePeriods returned
CallValidateGenerated ==
    /\ fn = "none"
    /\ \E ps \in GeneratedStores :
            /\ fn' = "ValidateHierarchy"
            /\ arg' = [store |-> ps, from |-> "GeneratePeriods"]
            /\ ret' = ValidateHierarchy(ps)
    /\ UNCHANGED svcVars

\* ValidateHierarchy on a hand-built store
CallValidateHierarchy ==
    /\ fn = "none"
    /\ \E ps \in HandStores :
            /\ fn' = "ValidateHierarchy"
            /\ arg' = [store |-> ps, from |-> "hand"]
            /\ ret' = ValidateHierarchy(ps)
    /\ UNCHANGED svcVars

\* fiscalPeriods, err := GenerateFiscalYear(months, cfg)
CallGenerateFiscalYear ==
    /\ fn = "none"
    /\ \E months \in MonthListChoices, cfg \in FiscalConfigInputs :
            /\ fn' = "GenerateFiscalYear"
            /\ arg' = [months |-> months, cfg |-> cfg]
            /\ ret' = GenerateFiscalYear(months, cfg)
    /\ UNCHANGED svcVars

\* ids := ps.BreakDownTradePeriodRange(pr)
CallBreakDownTradePeriodRange ==
    /\ fn = "none"
    /\ \E ps \in BreakdownStores :
         \E startID \in DOMAIN ps.Periods \cup {UnknownID},
            endID \in DOMAIN ps.Periods \cup {UnknownID} :
            /\ fn' = "BreakDownTradePeriodRange"
            /\ arg' = [store |-> ps, pr |-> PeriodRange(startID, endID)]
            /\ ret' = BreakDownTradePeriodRange(ps,
                                                PeriodRange(startID, endID))
    /\ UNCHANGED svcVars

\* InitializePeriods from line 139 on (NewPeriodStore, fiscal overlays,
\* SortAll, validators), applied to a loaded period list and its table
CallInitializeStore ==
    /\ fn = "none"
    /\ \E periods \in LoadedChoices, cfgs \in OverlayConfigChoices,
          dbFails \in BOOLEAN :
         \E run \in {InitializeStore(periods, Rows(periods), cfgs, dbFails,
                                     <<>>)} :
            /\ fn' = "InitializeStore"
            /\ arg' = [periods |-> periods, fiscalConfigs |-> cfgs,
                       dbFails |-> dbFails]
            /\ ret' = run
    /\ UNCHANGED svcVars

\* errs := s.ValidateFiscalCoverage() with s.store = ps
CallValidateFiscalCoverage ==
    /\ fn = "none"
    /\ \E ps \in CoverageStores :
            /\ fn' = "ValidateFiscalCoverage"
            /\ arg' = [store |-> ps]
            /\ ret' = ValidateFiscalCoverage(ps)
    /\ UNCHANGED svcVars

\* errs := DetectOverlaps(periods)
CallDetectOverlaps ==
    /\ fn = "none"
    /\ \E input \in OverlapInputs :
         \E order \in GroupOrders(input.periods) :
            /\ fn' = "DetectOverlaps"
            /\ arg' = [periods |-> input.periods, from |-> input.from,
                       order |-> order]
            /\ ret' = DetectOverlaps(input.periods, order)
    /\ UNCHANGED svcVars

\* two process runs against one repository: InitializePeriods on a new
\* PeriodService, then, after a restart, InitializePeriods with the same
\* arguments on a new PeriodService and the table the first run left
CallInitializePeriodsTwice ==
    /\ fn = "none"
    /\ \E rows \in StartupTables, yy \in YearPairs,
          fiscalConfigs \in FiscalConfigChoices :
         \E first \in {InitializePeriodsRun(NilStore, rows, yy[1], yy[2],
                                             fiscalConfigs, FALSE, "none")} :
          \E second \in {InitializePeriodsRun(NilStore, first.db, yy[1],
                                               yy[2], fiscalConfigs, FALSE,
                                               "none")} :
            /\ fn' = "InitializePeriodsTwice"
            /\ arg' = [db |-> rows, startYear |-> yy[1], endYear |-> yy[2],
                       fiscalConfigs |-> fiscalConfigs]
            /\ ret' = [first |-> first, second |-> second]
    /\ UNCHANGED svcVars

\* err := p.Validate()
CallValidate ==
    /\ fn = "none"
    /\ \E p \in ValidateInputs :
            /\ fn' = "Validate"
            /\ arg' = [p |-> p]
            /\ ret' = [err |-> Validate(p)]
    /\ UNCHANGED svcVars

\* err := repo.SavePeriods(ctx, periods) on a table holding rows; ret.db is
\* the table afterwards
CallSavePeriods ==
    /\ fn = "none"
    /\ \E rows \in BatchTables, periods \in Batches, dbFails \in BOOLEAN :
            /\ fn' = "SavePeriods"
            /\ arg' = [rows |-> rows, periods |-> periods,
                       dbFails |-> dbFails]
            /\ ret' = SavePeriods(rows, periods, dbFails)
    /\ UNCHANGED svcVars

\* store := NewPeriodStore(periods)
CallNewPeriodStore ==
    /\ fn = "none"
    /\ \E periods \in TiedPeriodLists :
            /\ fn' = "NewPeriodStore"
            /\ arg' = [periods |-> periods]
            /\ ret' = NewPeriodStore(periods)
    /\ UNCHANGED svcVars

\* ps.SortAll() on a store whose buckets were appended to
CallSortAll ==
    /\ fn = "none"
    /\ \E periods \in TiedPeriodLists :
            /\ fn' = "SortAll"
            /\ arg' = [periods |-> periods]
            /\ ret' = SortAll(AppendedStore(periods))
    /\ UNCHANGED svcVars

\* ids := ps.BreakDownTradePeriod(periodID) and, for comparison,
\* ps.BreakDownTradePeriodRange over periodID..periodID, on the store of
\* package period built from its GeneratePeriods
CallBreakDownTradePeriod ==
    /\ fn = "none"
    /\ \E yy \in {pair \in YearPairs : pair[1] <= pair[2]} :
         \E kept \in KeptChoices(yy[1], yy[2]) :
          \E ps \in {NewPeriodStore(period_GeneratePeriods(yy[1], yy[2],
                                                           kept))} :
           \E periodID \in DOMAIN ps.Periods \cup {UnknownID} :
            /\ fn' = "BreakDownTradePeriod"
            /\ arg' = [store |-> ps, periodID |-> periodID]
            /\ ret' = [ids |-> period_BreakDownTradePeriod(ps, periodID),
                       range |-> period_BreakDownTradePeriodRange(ps,
                                    PeriodRange(periodID, periodID))]
    /\ UNCHANGED svcVars

\* one pass of the loop over fiscalConfigs (lines 146-173): arg is the store
\* and the table the pass starts from, after the passes for the prior
\* configurations; ret is what it leaves
CallOverlayStep ==
    /\ fn = "none"
    /\ \E periods \in OverlayBases, prior \in PriorConfigChoices,
          cfg \in OverlayStepConfigs, dbFails \in BOOLEAN :
         \E before \in {OverlayLoop(NewPeriodStore(periods), Rows(periods),
                                     prior, 1, FALSE, <<>>)} :
          \E after \in {OverlayLoop(before.store, before.db, <<cfg>>, 1,
                                     dbFails, <<>>)} :
            /\ ~before.err
            /\ fn' = "OverlayStep"
            /\ arg' = [store |-> before.store, db |-> before.db,
                       prior |-> prior, cfg |-> cfg, dbFails |-> dbFails]
            /\ ret' = after
    /\ UNCHANGED svcVars

NextPure ==
    \/ CallGeneratePeriods
    \/ CallValidateGenerated
    \/ CallValidateHierarchy
    \/ CallGenerateFiscalYear
    \/ CallBreakDownTradePeriodRange

SpecPure == InitPure /\ [][NextPure]_vars

-----------------------------------------------------------------------------
(* SpecFiscal: the fiscal overlay, the coverage validator and the overlap  *)
(* detector applied to the inputs above, one call per behaviour.           *)

NextFiscal ==
    \/ CallGenerateFiscalYear
    \/ CallInitializeStore
    \/ CallValidateFiscalCoverage
    \/ CallDetectOverlaps
    \/ CallOverlayStep

SpecFiscal == InitPure /\ [][NextFiscal]_vars

-----------------------------------------------------------------------------
(* SpecStartup: the startup sequence seen from outside, one scenario per   *)
(* behaviour.                                                              *)

NextStartup ==
    \/ CallInitializePeriodsTwice

SpecStartup == InitPure /\ [][NextStartup]_vars

-----------------------------------------------------------------------------
(* SpecStore: the repository and the PeriodStore operations applied to the *)
(* inputs above, one call per behaviour.                                   *)

NextStore ==
    \/ CallValidate
    \/ CallSavePeriods
    \/ CallNewPeriodStore
    \/ CallSortAll
    \/ CallBreakDownTradePeriod

SpecStore == InitPure /\ [][NextStore]_vars

-----------------------------------------------------------------------------
(* Properties                                                              *)

\* C1: when both IDs of the range resolve, BreakDownTradePeriodRange returns
\* exactly the IDs of the months of the Months bucket that lie fully inside
\* the range (month.Start >= startPeriod.Start and month.End <=
\* endPeriod.End), in chronological order; on the store built from
\* GeneratePeriods(2026, 2027) the range 2026-Q1..2026-Q2 yields 2026-JAN to
\* 2026-JUN in that order.
C1_BreakDownReturnsContainedMonths ==
    fn = "BreakDownTradePeriodRange" =>
        LET ps == arg.store
            startPeriod == FindByID(ps, arg.pr.StartPeriodID)
            endPeriod == FindByID(ps, arg.pr.EndPeriodID)
            Contained(m) == /\ m.StartDate >= startPeriod.StartDate
                            /\ m.EndDate <= endPeriod.EndDate
            contained == SelectSeq(ps.Months, Contained)
        IN  (startPeriod # NilPeriod /\ endPeriod # NilPeriod) =>
                /\ ret = [i \in 1 .. Len(contained) |-> contained[i].ID]
                /\ \A i, j \in 1 .. Len(ret) :
                        i < j => FindByID(ps, ret[i]).StartDate
                                    < FindByID(ps, ret[j]).StartDate
                /\ (/\ Len(ps.Years) = 2
                    /\ ps.Years[1].ID = "2026"
                    /\ ps.Years[2].ID = "2027"
                    /\ arg.pr = PeriodRange("2026-Q1", "2026-Q2"))
                   => ret = <<"2026-JAN", "2026-FEB", "2026-MAR",
                              "2026-APR", "2026-MAY", "2026-JUN">>

\* the example of C1 has been computed
C1_Witness ==
    /\ fn = "BreakDownTradePeriodRange"
    /\ Len(arg.store.Years) = 2
    /\ arg.store.Years[1].ID = "2026"
    /\ arg.store.Years[2].ID = "2027"
    /\ arg.pr = PeriodRange("2026-Q1", "2026-Q2")
    /\ Len(ret) = 6

\* C2: for every year y of [startYear, endYear] GeneratePeriods yields exactly
\* one Year, four Quarters and twelve Months, and the twelve month ranges
\* partition the year's range: the first starts with the year, each next one
\* starts one nanosecond after the one before ends, the last ends with the
\* year.
C2_GeneratePeriodsPartitionsEachYear ==
    fn = "GeneratePeriods" =>
        /\ Len(ret) = 17 * Cardinality(arg.startYear .. arg.endYear)
        /\ \A y \in arg.startYear .. arg.endYear :
            LET yearStart == Date(y, 1)
                yearEnd == Date(y + 1, 1) - Nanosecond
                InYear(p) == /\ p.StartDate >= yearStart
                             /\ p.StartDate <= yearEnd
                TheYear(p) == IsYear(p) /\ InYear(p)
                ItsQuarter(p) == IsQuarter(p) /\ InYear(p)
                ItsMonth(p) == IsMonth(p) /\ InYear(p)
                years == SelectSeq(ret, TheYear)
                months == SelectSeq(ret, ItsMonth)
            IN  /\ Len(years) = 1
                /\ years[1].StartDate = yearStart
                /\ years[1].EndDate = yearEnd
                /\ Len(SelectSeq(ret, ItsQuarter)) = 4
                /\ Len(months) = 12
                /\ months[1].StartDate = yearStart
                /\ months[12].EndDate = yearEnd
                /\ \A i \in 1 .. 11 :
                        months[i + 1].StartDate
                            = months[i].EndDate + Nanosecond
                /\ \A i \in 1 .. 12 :
                        months[i].StartDate <= months[i].EndDate

\* two years have been generated
C2_Witness ==
    /\ fn = "GeneratePeriods"
    /\ arg.startYear = 2026
    /\ arg.endYear = 2027
    /\ Len(ret) = 34

\* C3: when InitializePeriods returns nil, the final store (the loaded or
\* generated periods with every configured fiscal year, sorted) passes
\* ValidateHierarchy and ValidateFiscalCoverage and no step reported an
\* error; when a load, save or overlay step fails or a validator reports a
\* violation, InitializePeriods returns an error.
C3_NilOnlyAfterBothValidatorsPass ==
    /\ initResult = "nil" =>
        /\ store # NilStore
        /\ store = SortAll(store)
        /\ \A i \in 1 .. Len(initArgs.fiscalConfigs) :
                FindByID(store, "FY" \o ToString(
                            initArgs.fiscalConfigs[i].StartYear)) # NilPeriod
        /\ ValidateHierarchy(store) = <<>>
        /\ ValidateFiscalCoverage(store) = <<>>
        /\ \A i \in 1 .. Len(callLog) : ~callLog[i].err
    /\ (\E i \in 1 .. Len(callLog) : callLog[i].err) => initResult = "error"
    /\ (initResult # "none" /\ store # NilStore
          /\ (ValidateHierarchy(SortAll(store)) # <<>>
              \/ ValidateFiscalCoverage(SortAll(store)) # <<>>))
        => initResult = "error"

\* InitializePeriods returned nil with a fiscal calendar configured
C3_Witness ==
    /\ initResult = "nil"
    /\ Len(initArgs.fiscalConfigs) > 0
    /\ Len(store.Quarters) > 0
    /\ callLog[Len(callLog)].call = "ValidateFiscalCoverage"

C5_OverlapDetectorRunsAtStartup ==
    (initResult = "nil" \/ lastBreakdown # <<>>) =>
        \E i, j, k, l \in 1 .. Len(callLog) :
            /\ callLog[i].call = "SortAll"
            /\ callLog[j] = Call("ValidateHierarchy", FALSE)
            /\ callLog[k] = Call("ValidateOverlaps", FALSE)
            /\ callLog[l] = Call("ValidateFiscalCoverage", FALSE)
            /\ i < j /\ i < k /\ i < l
            /\ \A n \in 1 .. Len(callLog) :
                    callLog[n].call = "ValidateOverlaps" => n = k

\* C6: given Gregorian months in chronological order that include the twelve
\* consecutive months from cfg.StartMonth of cfg.StartYear on,
\* GenerateFiscalYear returns five periods, the fiscal year and then Q1..Q4,
\* all with Calendar = Fiscal; the year spans [first day of StartMonth, one
\* year later minus 1ns] and lists the four quarter IDs; quarter k has the
\* year as parent, spans its first month's start to its third month's end
\* and lists months 3k-2..3k (FY2026 from April: Q1 lists 2026-APR, 2026-MAY,
\* 2026-JUN).
C6_FiscalYearOfFivePeriods ==
    fn = "GenerateFiscalYear" =>
        LET months == arg.months
            cfg == arg.cfg
            fyStart == Date(cfg.StartYear, cfg.StartMonth)
            MonthAt(k) == Date(cfg.StartYear, cfg.StartMonth + k)
            fyID == "FY" \o ToString(cfg.StartYear)
            gregorianSorted ==
                /\ \A i \in 1 .. Len(months) :
                        /\ months[i].Calendar = CalendarGregorian
                        /\ months[i].Granularity = MonthlyPeriod
                /\ \A i \in 1 .. Len(months) - 1 :
                        months[i].StartDate < months[i + 1].StartDate
            includesFiscalYear ==
                \A k \in 0 .. 11 : \E i \in 1 .. Len(months) :
                    /\ months[i].StartDate = MonthAt(k)
                    /\ months[i].EndDate = MonthAt(k + 1) - Nanosecond
        IN  (gregorianSorted /\ includesFiscalYear) =>
            /\ ~ret.err
            /\ Len(ret.periods) = 5
            /\ \A i \in 1 .. 5 : ret.periods[i].Calendar = CalendarFiscal
            /\ ret.periods[1] =
                Period(fyID, "Fiscal Year " \o ToString(cfg.StartYear),
                       CalendarFiscal, CalendarYearPeriod, NilParent,
                       <<fyID \o "-Q1", fyID \o "-Q2", fyID \o "-Q3",
                         fyID \o "-Q4">>,
                       fyStart,
                       Date(cfg.StartYear + 1, cfg.StartMonth) - Nanosecond)
            /\ \A k \in 1 .. 4 :
                LET quarter == ret.periods[k + 1]
                IN  /\ quarter.ID = fyID \o "-Q" \o ToString(k)
                    /\ quarter.Granularity = QuarterlyPeriod
                    /\ quarter.ParentPeriodID = fyID
                    /\ quarter.StartDate = MonthAt(3 * k - 3)
                    /\ quarter.EndDate = MonthAt(3 * k) - Nanosecond
                    /\ quarter.ChildPeriodIDs =
                        <<MonthID(MonthAt(3 * k - 3)),
                          MonthID(MonthAt(3 * k - 2)),
                          MonthID(MonthAt(3 * k - 1))>>
            /\ (cfg = FiscalCalendarConfig(2026, 4)) =>
                    ret.periods[2].ChildPeriodIDs =
                        <<"2026-APR", "2026-MAY", "2026-JUN">>

\* FY2026 from April has been generated from the stamped months
C6_Witness ==
    /\ fn = "GenerateFiscalYear"
    /\ arg.cfg = FiscalCalendarConfig(2026, 4)
    /\ \A i \in 1 .. Len(arg.months) :
            arg.months[i].Calendar = CalendarGregorian
    /\ ~ret.err
    /\ Len(ret.periods) = 5

\* C7: every period GeneratePeriods returns has Calendar = Gregorian, so its
\* months pass GenerateFiscalYear's Gregorian-month filter and the month rule
\* of ValidateHierarchy.
C7_GeneratedPeriodsAreGregorian ==
    fn = "GeneratePeriods" =>
        /\ \A i \in 1 .. Len(ret) : ret[i].Calendar = CalendarGregorian
        /\ \A i \in 1 .. Len(ret) :
            IsMonth(ret[i]) =>
                /\ FiscalMonths(<<ret[i]>>, ret[i].StartDate,
                                ret[i].EndDate) = <<ret[i]>>
                /\ \A v \in 1 .. Len(MonthViolations(NewPeriodStore(ret),
                                                     ret[i])) :
                        MonthViolations(NewPeriodStore(ret), ret[i])[v].kind
                            # "month_invalid_calendar"

\* C8: in what GeneratePeriods returns the links agree at every level: a
\* month names its quarter, a quarter names its year, no year has a parent,
\* a quarter lists its three months and a year lists its four quarters, in
\* chronological order.
C8_GeneratedLinksAgree ==
    fn = "GeneratePeriods" =>
        \A i \in 1 .. Len(ret) :
            LET p == ret[i]
                Inside(c) == /\ c.StartDate >= p.StartDate
                             /\ c.EndDate <= p.EndDate
                MonthInside(c) == IsMonth(c) /\ Inside(c)
                QuarterInside(c) == IsQuarter(c) /\ Inside(c)
                monthsInside == SelectSeq(ret, MonthInside)
                quartersInside == SelectSeq(ret, QuarterInside)
            IN  /\ IsYear(p) =>
                    /\ p.ParentPeriodID = NilParent
                    /\ p.ChildPeriodIDs =
                        [k \in 1 .. Len(quartersInside) |->
                            quartersInside[k].ID]
                    /\ \A k \in 1 .. Len(quartersInside) :
                            quartersInside[k].ParentPeriodID = p.ID
                /\ IsQuarter(p) =>
                    /\ p.ChildPeriodIDs =
                        [k \in 1 .. Len(monthsInside) |-> monthsInside[k].ID]
                    /\ \A k \in 1 .. Len(monthsInside) :
                            monthsInside[k].ParentPeriodID = p.ID

\* C9: ValidateHierarchy reports exactly one calendar-isolation violation for
\* every period whose parent has another calendar, and no violation at all
\* for a correctly linked period, in particular none for the periods
\* GeneratePeriods produced.
C9_OneCalendarViolationPerMismatch ==
    fn = "ValidateHierarchy" =>
        LET ps == arg.store
            all == ps.Years \o ps.Quarters \o ps.Months
            HasParent(p) == p.ParentPeriodID \in DOMAIN ps.Periods
            Parent(p) == ps.Periods[p.ParentPeriodID]
            Mismatched(p) ==
                HasParent(p) /\ Parent(p).Calendar # p.Calendar
            CorrectlyLinked(p) ==
                IF IsYear(p) THEN p.ParentPeriodID = NilParent
                ELSE /\ HasParent(p)
                     /\ Parent(p).Calendar = p.Calendar
                     /\ Parent(p).Granularity =
                            (IF IsMonth(p) THEN QuarterlyPeriod
                             ELSE CalendarYearPeriod)
                     /\ Parent(p).StartDate <= p.StartDate
                     /\ p.EndDate <= Parent(p).EndDate
            CalendarReports(p) ==
                { v \in 1 .. Len(ret) :
                    /\ ret[v].id = p.ID
                    /\ ret[v].kind \in {"calendar_mismatch",
                                        "month_non_gregorian_parent"} }
        IN  /\ \A i \in 1 .. Len(all) :
                Mismatched(all[i]) =>
                    Cardinality(CalendarReports(all[i])) = 1
            /\ \A i \in 1 .. Len(all) :
                CorrectlyLinked(all[i]) =>
                    \A v \in 1 .. Len(ret) : ret[v].id # all[i].ID
            /\ arg.from = "GeneratePeriods" => ret = <<>>

C11_EveryBrokenRuleReported ==
    fn = "ValidateHierarchy" =>
        LET ps == arg.store
            children == ps.Quarters \o ps.Months
            Reported(p, kinds) ==
                \E v \in 1 .. Len(ret) :
                    ret[v].id = p.ID /\ ret[v].kind \in kinds
        IN  \A i \in 1 .. Len(children) :
                LET p == children[i]
                IN  p.ParentPeriodID \in DOMAIN ps.Periods =>
                    LET parent == ps.Periods[p.ParentPeriodID]
                    IN  /\ parent.Calendar # p.Calendar =>
                            Reported(p, {"calendar_mismatch",
                                         "month_non_gregorian_parent",
                                         "month_invalid_calendar"})
                        /\ parent.ID = p.ID =>
                            Reported(p, {"self_reference"})
                        /\ GranularityRank(parent) <= GranularityRank(p) =>
                            Reported(p, {"granularity_order",
                                         "month_invalid_parent_granularity"})
                        /\ (parent.StartDate > p.StartDate
                              \/ parent.EndDate < p.EndDate) =>
                            Reported(p, {"starts_before_parent",
                                         "ends_after_parent",
                                         "month_not_contained"})

\* C12: for every Quarter, and every Month that names a parent, whose
\* ParentPeriodID is its own ID, ValidateHierarchy reports a self-reference
\* violation for that period.
C12_SelfReferenceReported ==
    fn = "ValidateHierarchy" =>
        LET children == arg.store.Quarters \o arg.store.Months
        IN  \A i \in 1 .. Len(children) :
                children[i].ParentPeriodID = children[i].ID =>
                    \E v \in 1 .. Len(ret) :
                        /\ ret[v].id = children[i].ID
                        /\ ret[v].kind = "self_reference"

\* C13: months are Gregorian leaves: every Month whose Calendar is not
\* Gregorian is reported; a Gregorian Month without a parent link gets no
\* violation; a Month whose parent is a Fiscal period is reported; a Quarter
\* without a parent link gets exactly one violation.
C13_MonthsAreGregorianLeaves ==
    fn = "ValidateHierarchy" =>
        LET ps == arg.store
            Reports(p) == { v \in 1 .. Len(ret) : ret[v].id = p.ID }
        IN  /\ \A i \in 1 .. Len(ps.Months) :
                LET m == ps.Months[i]
                IN  /\ m.Calendar # CalendarGregorian =>
                        \E v \in Reports(m) :
                            ret[v].kind = "month_invalid_calendar"
                    /\ (m.Calendar = CalendarGregorian
                          /\ m.ParentPeriodID = NilParent) =>
                        Reports(m) = {}
                    /\ (m.ParentPeriodID \in DOMAIN ps.Periods
                          /\ ps.Periods[m.ParentPeriodID].Calendar
                                = CalendarFiscal) =>
                        \E v \in Reports(m) :
                            ret[v].kind = "month_non_gregorian_parent"
            /\ \A i \in 1 .. Len(ps.Quarters) :
                ps.Quarters[i].ParentPeriodID = NilParent =>
                    /\ Cardinality(Reports(ps.Quarters[i])) = 1
                    /\ \A v \in Reports(ps.Quarters[i]) :
                            ret[v].kind = "no_parent"

\* a fiscal month under the fiscal year, an unlinked quarter out of range
C13_Witness ==
    /\ fn = "ValidateHierarchy"
    /\ arg.from = "hand"
    /\ arg.store.Periods["M"].Calendar = CalendarFiscal
    /\ arg.store.Periods["M"].ParentPeriodID = "FY2026"
    /\ arg.store.Periods["Q"].ParentPeriodID = NilParent
    /\ arg.store.Periods["Q"].Calendar = CalendarFiscal
    /\ Len(ret) = 3

C15_OverlaysLeaveMonthsUnchanged ==
    /\ fn = "GenerateFiscalYear" =>
            \A k \in 1 .. Len(ret.periods) :
                /\ ret.periods[k].Granularity # MonthlyPeriod
                /\ \A i \in 1 .. Len(arg.months) :
                        ret.periods[k].ID # arg.months[i].ID
    /\ fn = "InitializeStore" =>
            LET before == NewPeriodStore(arg.periods)
                after == ret.store
            IN  /\ Len(after.Months) = Len(before.Months)
                /\ { after.Months[i] : i \in 1 .. Len(after.Months) }
                     = { before.Months[i] : i \in 1 .. Len(before.Months) }
                /\ \A i \in 1 .. Len(before.Months) :
                        after.Periods[before.Months[i].ID] = before.Months[i]
                /\ \A id \in DOMAIN after.Periods :
                        after.Periods[id].Granularity = MonthlyPeriod =>
                            id \in DOMAIN before.Periods

\* two fiscal years were overlaid and the store passed both validators
C15_Witness ==
    /\ fn = "InitializeStore"
    /\ Len(arg.fiscalConfigs) = 2
    /\ ret.result = "nil"
    /\ {"FY2026", "FY2026-Q4", "FY" \o ToString(MaxYear)}
            \subseteq DOMAIN ret.store.Periods
    /\ Len(ret.store.Quarters)
            = Len(NewPeriodStore(arg.periods).Quarters) + 8

\* C16: on a store that passed ValidateHierarchy, for each Fiscal Year
\* ValidateFiscalCoverage reports no violation if and only if the Gregorian
\* months contained by date in the fiscal year are exactly 12, are contiguous
\* (each starts 1ns after the previous one ends) and begin and end with the
\* fiscal year; each of the three rules is reported whenever it is broken,
\* whatever the others say; a store without Fiscal Year yields no violation.
C16_CoverageRulesReportedIndependently ==
    (fn = "ValidateFiscalCoverage" /\ ValidateHierarchy(arg.store) = <<>>) =>
        LET ps == arg.store
            Reported(fy, kind) ==
                \E v \in 1 .. Len(ret) :
                    ret[v].id = fy.ID /\ ret[v].kind = kind
            Selected(fy) ==
                { ps.Months[i] : i \in
                    { k \in 1 .. Len(ps.Months) :
                        /\ ps.Months[k].Calendar = CalendarGregorian
                        /\ ps.Months[k].StartDate >= fy.StartDate
                        /\ ps.Months[k].EndDate <= fy.EndDate } }
            Earlier(sel, m) == { o \in sel : o.StartDate < m.StartDate }
            Previous(sel, m) ==
                CHOOSE o \in Earlier(sel, m) :
                    \A x \in Earlier(sel, m) : x.StartDate <= o.StartDate
            First(sel) == CHOOSE m \in sel : Earlier(sel, m) = {}
            Last(sel) ==
                CHOOSE m \in sel : \A x \in sel : x.StartDate <= m.StartDate
            CountOK(sel) == Cardinality(sel) = 12
            Contiguous(sel) ==
                \A m \in sel :
                    Earlier(sel, m) # {} =>
                        m.StartDate
                            = Previous(sel, m).EndDate + Nanosecond
            StartsOnBoundary(fy, sel) ==
                sel # {} => First(sel).StartDate = fy.StartDate
            EndsOnBoundary(fy, sel) ==
                sel # {} => Last(sel).EndDate = fy.EndDate
            fiscalYears ==
                { ps.Years[i] : i \in
                    { k \in 1 .. Len(ps.Years) :
                        /\ ps.Years[k].Calendar = CalendarFiscal
                        /\ ps.Years[k].Granularity = CalendarYearPeriod } }
        IN  /\ \A fy \in fiscalYears :
                \E sel \in {Selected(fy)} :
                    /\ (~ \E v \in 1 .. Len(ret) : ret[v].id = fy.ID)
                         <=> ( /\ CountOK(sel)
                               /\ Contiguous(sel)
                               /\ StartsOnBoundary(fy, sel)
                               /\ EndsOnBoundary(fy, sel) )
                    /\ Reported(fy, "month_count") <=> ~CountOK(sel)
                    /\ Reported(fy, "gap_or_overlap") <=> ~Contiguous(sel)
                    /\ Reported(fy, "start_not_on_boundary")
                         <=> ~StartsOnBoundary(fy, sel)
                    /\ Reported(fy, "end_not_on_boundary")
                         <=> ~EndsOnBoundary(fy, sel)
            /\ fiscalYears = {} => ret = <<>>
            /\ \A v \in 1 .. Len(ret) :
                    \E fy \in fiscalYears : ret[v].id = fy.ID

\* June 2026 overlaps May under a fiscal year that starts and ends mid-month:
\* count, contiguity and both boundary rules are broken and all reported,
\* while the covered fiscal year next to it gets the contiguity violation only
C16_Witness ==
    /\ fn = "ValidateFiscalCoverage"
    /\ ValidateHierarchy(arg.store) = <<>>
    /\ {"FY-SHIFTED", "FY2026-JAN", "2026-JUN"}
            \subseteq DOMAIN arg.store.Periods
    /\ arg.store.Periods["2026-JUN"].StartDate = Date(2026, 6) - TicksPerDay
    /\ Len(ret) = 5
    /\ \E v \in 1 .. Len(ret) :
            ret[v] = Violation("gap_or_overlap", "FY2026-JAN", "2026-JUN")

C19_NoOverlapAcrossCalendars ==
    fn = "DetectOverlaps" =>
        /\ \A v \in 1 .. Len(ret) :
                \A i, j \in 1 .. Len(arg.periods) :
                    ( /\ arg.periods[i].ID = ret[v].prev
                      /\ arg.periods[j].ID = ret[v].curr ) =>
                        arg.periods[i].Calendar = arg.periods[j].Calendar
        /\ arg.from = "overlay" => ret = <<>>

\* C20: a decomposition request leaves the store (and the table) unchanged,
\* and its result is empty whenever StartPeriodID or EndPeriodID is not an
\* ID of the store, and whenever the start period begins after the end
\* period ends.
C20_SoftFailureLeavesStoreUnchanged ==
    [][ (lastRange' # lastRange \/ lastBreakdown' # lastBreakdown) =>
            /\ store' = store
            /\ db' = db
            /\ store # NilStore =>
                LET startID == lastRange'.StartPeriodID
                    endID == lastRange'.EndPeriodID
                IN  ( \/ startID \notin DOMAIN store.Periods
                      \/ endID \notin DOMAIN store.Periods
                      \/ store.Periods[startID].StartDate
                            > store.Periods[endID].EndDate ) =>
                        lastBreakdown' = <<>> ]_vars

\* 2027-Q2 .. 2026 was asked of a store that holds both and has months
C20_Witness ==
    /\ store # NilStore
    /\ lastRange = PeriodRange("2027-Q2", "2026")
    /\ {"2027-Q2", "2026"} \subseteq DOMAIN store.Periods
    /\ Len(store.Months) > 0
    /\ lastBreakdown = <<>>

\* C21: a range with startYear > endYear is rejected before anything is
\* generated: GeneratePeriods does not come back with a list of periods (it
\* fails), and InitializePeriods returns an error having called neither the
\* repository nor the generator and leaves the store nil.
C21_ReversedRangeRejected ==
    /\ (fn = "GeneratePeriods" /\ arg.startYear > arg.endYear) =>
            ret # <<>>
    /\ (initResult # "none" /\ initArgs.startYear > initArgs.endYear) =>
            /\ initResult = "error"
            /\ callLog = <<>>
            /\ store = NilStore
            /\ db \in DBChoices

C24_ChildrenRebuiltAfterLoading ==
    ( /\ initResult = "nil"
      /\ store # NilStore
      /\ \A k \in 1 .. Len(callLog) : callLog[k].call # "GeneratePeriods" ) =>
        \A id \in DOMAIN store.Periods :
            { store.Periods[id].ChildPeriodIDs[k] :
                k \in 1 .. Len(store.Periods[id].ChildPeriodIDs) }
            = { c \in DOMAIN store.Periods :
                    store.Periods[c].ParentPeriodID = id }

\* C25: Validate returns an error for every period with an empty ID, an
\* empty Name, a granularity other than Month, Quarter and Year, or a
\* StartDate that is not strictly before its EndDate; and when some period
\* of a batch fails Validate, SavePeriods returns an error and the table
\* holds exactly the rows it held before.
C25_InvalidPeriodsRejected ==
    /\ ( /\ fn = "Validate"
          /\ \/ arg.p.ID = ""
             \/ arg.p.Name = ""
             \/ arg.p.Granularity \notin
                    {MonthlyPeriod, QuarterlyPeriod, CalendarYearPeriod}
             \/ ~(arg.p.StartDate < arg.p.EndDate) )
        => ret.err
    /\ ( /\ fn = "SavePeriods"
          /\ \E i \in 1 .. Len(arg.periods) : Validate(arg.periods[i]) )
        => /\ ret.err
           /\ ret.db = arg.rows

\* C26: after NewPeriodStore and after SortAll each of the buckets Months,
\* Quarters and Years is in ascending order of StartDate, two periods that
\* start at the same instant stand in the order of their IDs, and so the
\* buckets are the same whatever the order in which the periods were given
\* (here: the same as for the reversed list).
C26_BucketsOrderedByStartThenID ==
    fn \in {"NewPeriodStore", "SortAll"} =>
        LET IDOrder == <<"2026", "2026-APR", "2026-Q2", "FY2026-JAN",
                         "FY2026-Q1", "M-APR">>
            Rank(id) == CHOOSE k \in 1 .. Len(IDOrder) : IDOrder[k] = id
            Ordered(bucket) ==
                \A i \in 1 .. Len(bucket) - 1 :
                    \/ bucket[i].StartDate < bucket[i + 1].StartDate
                    \/ /\ bucket[i].StartDate = bucket[i + 1].StartDate
                       /\ Rank(bucket[i].ID) < Rank(bucket[i + 1].ID)
            other == IF fn = "NewPeriodStore"
                     THEN NewPeriodStore(Reversed(arg.periods))
                     ELSE SortAll(AppendedStore(Reversed(arg.periods)))
        IN  /\ Ordered(ret.Months)
            /\ Ordered(ret.Quarters)
            /\ Ordered(ret.Years)
            /\ ret.Months = other.Months
            /\ ret.Quarters = other.Quarters
            /\ ret.Years = other.Years

\* C27: on the store built from GeneratePeriods, BreakDownTradePeriod of a
\* known ID returns the IDs of the months that lie inside the period, in
\* chronological order: the twelve months of a Year, the three months of a
\* Quarter, the Month's own ID for a Month; and this is the list
\* BreakDownTradePeriodRange returns for the range periodID..periodID.
C27_SinglePeriodBreakdown ==
    (fn = "BreakDownTradePeriod" /\ arg.periodID \in DOMAIN arg.store.Periods)
    => LET p == arg.store.Periods[arg.periodID]
           Inside(m) == /\ m.StartDate >= p.StartDate
                        /\ m.EndDate <= p.EndDate
           inside == SelectSeq(arg.store.Months, Inside)
       IN  /\ Len(inside) = (IF IsYear(p) THEN 12
                             ELSE IF IsQuarter(p) THEN 3 ELSE 1)
           /\ ret.ids = [i \in 1 .. Len(inside) |-> inside[i].ID]
           /\ IsMonth(p) => ret.ids = <<arg.periodID>>
           /\ ret.ids = ret.range

\* C28: InitializePeriods checks before creating.  In every call with
\* startYear <= endYear in which no repository call fails: if the table held
\* a period of startYear, GeneratePeriods is not called and the table keeps
\* its calendar rows; otherwise GeneratePeriods(startYear, endYear) is called
\* and its periods are in the table afterwards; in both cases the store is
\* built and holds every period of the table.
C28_CheckBeforeCreate ==
    [][ ( /\ initResult = "none"
          /\ initResult' # "none"
          /\ initArgs'.startYear <= initArgs'.endYear
          /\ \A k \in 1 .. Len(callLog') :
                callLog'[k].call \in {"GetAllPeriods", "SavePeriods"}
                    => ~callLog'[k].err )
        => \A calendar \in {GeneratePeriods(initArgs'.startYear,
                                             initArgs'.endYear)} :
           \A before \in {{db[k] : k \in 1 .. Len(db)}} :
           \A after \in {{db'[k] : k \in 1 .. Len(db')}} :
             LET exist == \E row \in before :
                            YearOf(row.StartDate) = initArgs'.startYear
                 generated == \E k \in 1 .. Len(callLog') :
                                callLog'[k].call = "GeneratePeriods"
             IN  /\ exist =>
                      /\ ~generated
                      /\ \A row \in after :
                            row.Calendar # CalendarFiscal => row \in before
                 /\ ~exist =>
                      /\ generated
                      /\ \A i \in 1 .. Len(calendar) :
                            Row(calendar[i]) \in after
                 /\ store' # NilStore
                 /\ \A row \in after : row.ID \in DOMAIN store'.Periods ]_vars

\* C29: one pass of the overlay loop is a monotonic merge that keeps the
\* index consistent.  Every period the store held is still in the map,
\* unchanged, and every bucket starts with the entries it had; every ID of
\* the map whose granularity is Month, Quarter or Year stands exactly once
\* in the bucket of that granularity and in no other; every bucket entry is
\* the map entry of its ID; a fiscal year whose year and first quarter are
\* in the store already (the same fiscal year configured twice) leaves store
\* and table as they were; and a pass that generated and saved a fiscal year
\* leaves its five periods in the store.
C29_OverlayIsMonotonicMerge ==
    fn = "OverlayStep" =>
        LET old == arg.store
            new == ret.store
            fyID == "FY" \o ToString(arg.cfg.StartYear)
            Buckets(ps) == <<ps.Months, ps.Quarters, ps.Years>>
            BucketOf == [g \in {MonthlyPeriod, QuarterlyPeriod,
                                CalendarYearPeriod} |->
                            IF g = MonthlyPeriod THEN 1
                            ELSE IF g = QuarterlyPeriod THEN 2 ELSE 3]
            Places(id, b) == { k \in 1 .. Len(Buckets(new)[b]) :
                                    Buckets(new)[b][k].ID = id }
        IN  /\ \A id \in DOMAIN old.Periods :
                    /\ id \in DOMAIN new.Periods
                    /\ new.Periods[id] = old.Periods[id]
            /\ \A b \in 1 .. 3 :
                    /\ Len(Buckets(new)[b]) >= Len(Buckets(old)[b])
                    /\ SubSeq(Buckets(new)[b], 1, Len(Buckets(old)[b]))
                            = Buckets(old)[b]
            /\ \A id \in DOMAIN new.Periods :
                    new.Periods[id].Granularity \in DOMAIN BucketOf =>
                        \A b \in 1 .. 3 :
                            Cardinality(Places(id, b))
                                = (IF b = BucketOf[new.Periods[id].Granularity]
                                   THEN 1 ELSE 0)
            /\ \A b \in 1 .. 3 : \A k \in 1 .. Len(Buckets(new)[b]) :
                    /\ Buckets(new)[b][k].ID \in DOMAIN new.Periods
                    /\ new.Periods[Buckets(new)[b][k].ID] = Buckets(new)[b][k]
            /\ {fyID, fyID \o "-Q1"} \subseteq DOMAIN old.Periods =>
                    /\ new = old
                    /\ ret.db = arg.db
                    /\ ~ret.err
            /\ ret.log = <<Call("GenerateFiscalYear", FALSE),
                           Call("SavePeriods", FALSE)>> =>
                    /\ DOMAIN new.Periods
                        = DOMAIN old.Periods
                            \cup {fyID, fyID \o "-Q1", fyID \o "-Q2",
                                  fyID \o "-Q3", fyID \o "-Q4"}
                    /\ Len(new.Years) = Len(old.Years) + 1
                    /\ Len(new.Quarters) = Len(old.Quarters) + 4
            /\ ret.err => (new = old /\ ret.db = arg.db)

\* after the pass for the fiscal year starting January of MaxYear, the pass
\* for fiscal year 2026 added FY2026 and its four quarters to the store
C29_Witness ==
    /\ fn = "OverlayStep"
    /\ arg.cfg = FiscalCalendarConfig(2026, 4)
    /\ arg.prior = <<FiscalCalendarConfig(MaxYear, 1)>>
    /\ "FY" \o ToString(MaxYear) \in DOMAIN arg.store.Periods
    /\ "FY2026" \notin DOMAIN arg.store.Periods
    /\ {"FY2026", "FY2026-Q1", "FY2026-Q4"} \subseteq DOMAIN ret.store.Periods
    /\ Len(ret.store.Years) = Len(arg.store.Years) + 1

\* C30: when every period of the list has StartDate <= EndDate and
\* DetectOverlaps returns no message, no two periods of the same granularity
\* share an instant, the ranges being taken with both ends included: neither
\* starts at or before the other's EndDate while ending at or after the
\* other's StartDate.
C30_NoMessageMeansNoSharedInstant ==
    ( /\ fn = "DetectOverlaps"
      /\ ret = <<>>
      /\ \A i \in 1 .. Len(arg.periods) :
            arg.periods[i].StartDate <= arg.periods[i].EndDate )
    => \A i, j \in 1 .. Len(arg.periods) :
            ( /\ i # j
              /\ arg.periods[i].Granularity = arg.periods[j].Granularity )
            => ~( /\ arg.periods[i].StartDate <= arg.periods[j].EndDate
                  /\ arg.periods[j].StartDate <= arg.periods[i].EndDate )

====
